---- MODULE Spec2Model ----
(***************************************************************************)
(* Relay-style cursor pagination of molon/gorelay: the pagination engine,  *)
(* the keyset and offset cursor adapters, their cursor codecs and the gorm *)
(* finders, over a small table of User rows.                               *)
(***************************************************************************)
EXTENDS Integers, Sequences, FiniteSets, TLC

VARIABLES
    store,            \* the users table: a sequence of rows in primary-key order
    mode,             \* which adapter backs applyCursorsFunc: "keyset" or "offset"
    nodesOnly,        \* engine configuration
    hasCounter,       \* whether the finder also implements Counter
    maxLimit,         \* engine configuration
    limitIfNotSet,    \* engine configuration
    orderBysIfNotSet, \* engine configuration
    req,              \* the PaginateRequest of the last call
    resp,             \* the PaginateResponse of the last call (NoResponse when nil)
    err,              \* the error of the last call ("" when nil)
    calls,            \* the Count/Find calls the last call issued, in order
    phase,            \* "idle" between calls, "returned" when a call has returned
    codecIn,          \* the arguments of a cursor codec called on its own (nil if none)
    codecOut,         \* what that codec returned (nil if none)
    wrap,             \* the cursor transform wrapped around the adapter ("none" if none)
    walk,             \* what a client that follows the cursors has collected (nil if none)
    inv               \* the locals of each Paginate invocation that runs step by step

vars == <<store, mode, nodesOnly, hasCounter, maxLimit, limitIfNotSet,
          orderBysIfNotSet, req, resp, err, calls, phase, codecIn, codecOut,
          wrap, walk, inv>>

extVars == <<wrap, walk, inv>>

----------------------------------------------------------------------------
(* Bounds of the model *)

MaxN == 5
MaxAge == 2
MaxCfgLimit == 1
MaxOffset == 8
MaxWide == 4
MaxPage == 2

----------------------------------------------------------------------------
(* Optional values (Go pointers): <<>> is nil, <<v>> points at v *)

None == <<>>

Some(v) == <<v>>

IsSet(o) == Len(o) > 0

Min(a, b) == IF a < b THEN a ELSE b

Range(s) == {s[i] : i \in DOMAIN s}

Reverse(s) == [i \in 1..Len(s) |-> s[Len(s) + 1 - i]]

Take(s, n) == SubSeq(s, 1, Min(n, Len(s)))

----------------------------------------------------------------------------
(* Keyset cursor codec: src/cursor/keyset.go *)

\* Byte order of the field names, as jsoniter's SortMapKeys emits them.
KeyRank(f) == IF f = "Age" THEN 1 ELSE IF f = "ID" THEN 2 ELSE 3

KeysOf(orderBys) == [i \in 1..Len(orderBys) |-> orderBys[i].Field]

\* Faulty variant: the members are emitted in descending key order.
MarshalSortedDescending(m) ==
    LET ks == DOMAIN m
    IN  [i \in 1..Cardinality(ks) |->
            LET k == CHOOSE k \in ks :
                        Cardinality({j \in ks : KeyRank(j) > KeyRank(k)}) = i - 1
            IN  <<k, m[k]>>]

\* A JSON object is modelled as the sequence of its <<key, value>> members.
MarshalSorted(m) ==
    LET ks == DOMAIN m
    IN  [i \in 1..Cardinality(ks) |->
            LET k == CHOOSE k \in ks :
                        Cardinality({j \in ks : KeyRank(j) < KeyRank(k)}) = i - 1
            IN  <<k, m[k]>>]

PickByKeys(m, keys) == [k \in (DOMAIN m) \cap Range(keys) |-> m[k]]

\* The first integer that a float64 no longer tells from its successor. In
\* Go it is 2^53; the mantissa is scaled down to 30 bits here so that the
\* values fit the integers of the model checker.
TwoToMantissa == 2^30

\* A JSON number read into an interface{} becomes a float64: an integer up to
\* TwoToMantissa is kept exactly; above it the representable values are 2
\* apart, and an odd integer is rounded to the neighbour with the even
\* mantissa.
Float64(v) ==
    IF v <= TwoToMantissa THEN v
    ELSE IF (v - TwoToMantissa) % 2 = 0 THEN v
    ELSE IF (v - TwoToMantissa - 1) % 4 = 0 THEN v - 1
    ELSE v + 1

\* Unmarshal of a JSON object into a map[string]any: a repeated member keeps
\* the last value, numbers become float64.
Unmarshal(cursor) ==
    LET ks == {cursor[i][1] : i \in DOMAIN cursor}
    IN  [k \in ks |->
            LET last == CHOOSE i \in DOMAIN cursor :
                            /\ cursor[i][1] = k
                            /\ \A j \in DOMAIN cursor : cursor[j][1] = k => j <= i
            IN  Float64(cursor[last][2])]

\* Marshal the node, unmarshal it into a map, keep the keys, marshal again.
EncodeKeysetCursor(node, keys) ==
    MarshalSorted(PickByKeys(Unmarshal(MarshalSorted(node)), keys))

\* Faulty variant: the number of decoded keys is not compared with the keys.
DecodeKeysetCursorAnyLength(cursor, keys) ==
    LET m == Unmarshal(cursor)
    IN  IF \E i \in DOMAIN keys : keys[i] \notin DOMAIN m
        THEN [err |-> "key not found in cursor", m |-> <<>>]
        ELSE [err |-> "", m |-> m]

DecodeKeysetCursor(cursor, keys) ==
    LET m == Unmarshal(cursor)
    IN  IF Cardinality(DOMAIN m) # Len(keys)
        THEN [err |-> "cursor length != keys length", m |-> <<>>]
        ELSE IF \E i \in DOMAIN keys : keys[i] \notin DOMAIN m
        THEN [err |-> "key not found in cursor", m |-> <<>>]
        ELSE [err |-> "", m |-> m]

decodeKeysetCursors(after, before, keys) ==
    IF IsSet(after) /\ IsSet(before) /\ after[1] = before[1]
    THEN [err |-> "after == before", after |-> None, before |-> None]
    ELSE LET a == IF IsSet(after) THEN DecodeKeysetCursor(after[1], keys)
                  ELSE [err |-> "", m |-> <<>>]
             b == IF IsSet(before) THEN DecodeKeysetCursor(before[1], keys)
                  ELSE [err |-> "", m |-> <<>>]
         IN  IF a.err # "" THEN [err |-> a.err, after |-> None, before |-> None]
             ELSE IF b.err # "" THEN [err |-> b.err, after |-> None, before |-> None]
             ELSE [err |-> "",
                   after |-> IF IsSet(after) THEN Some(a.m) ELSE None,
                   before |-> IF IsSet(before) THEN Some(b.m) ELSE None]

----------------------------------------------------------------------------
(* Offset cursor codec: src/cursor/offset.go *)

\* strconv.Itoa and base64.StdEncoding on the integers the model uses.
OffsetCodeTable ==
    << <<-2, "-2", "LTI=">>, <<-1, "-1", "LTE=">>, <<0, "0", "MA==">>,
       <<1, "1", "MQ==">>, <<2, "2", "Mg==">>, <<3, "3", "Mw==">>,
       <<4, "4", "NA==">>, <<5, "5", "NQ==">>, <<6, "6", "Ng==">>,
       <<7, "7", "Nw==">>, <<8, "8", "OA==">>, <<9, "9", "OQ==">>,
       <<10, "10", "MTA=">>, <<11, "11", "MTE=">>, <<12, "12", "MTI=">> >>

\* Other decimal texts that strconv.Atoi accepts (an explicit plus sign), with
\* their base64.
OffsetSignedTable ==
    << <<0, "+0", "KzA=">>, <<1, "+1", "KzE=">>, <<2, "+2", "KzI=">>,
       <<3, "+3", "KzM=">>, <<4, "+4", "KzQ=">>, <<5, "+5", "KzU=">>,
       <<6, "+6", "KzY=">>, <<7, "+7", "Kzc=">>, <<8, "+8", "Kzg=">> >>

Itoa(n) == (CHOOSE i \in DOMAIN OffsetCodeTable : OffsetCodeTable[i][1] = n)

OffsetEncode(offset) == OffsetCodeTable[Itoa(offset)][3]

OffsetDecode(cursor) ==
    IF \E i \in DOMAIN OffsetCodeTable : OffsetCodeTable[i][3] = cursor
    THEN [err |-> "",
          offset |-> OffsetCodeTable[CHOOSE i \in DOMAIN OffsetCodeTable :
                                        OffsetCodeTable[i][3] = cursor][1]]
    ELSE IF \E i \in DOMAIN OffsetSignedTable : OffsetSignedTable[i][3] = cursor
    THEN [err |-> "",
          offset |-> OffsetSignedTable[CHOOSE i \in DOMAIN OffsetSignedTable :
                                          OffsetSignedTable[i][3] = cursor][1]]
    ELSE [err |-> "decode offset cursor", offset |-> 0]

\* Faulty variant: the sign of the decoded offsets is not checked.
parseOffsetCursorsAnySign(after, before) ==
    LET a == IF IsSet(after) THEN OffsetDecode(after[1]) ELSE [err |-> "", offset |-> 0]
        b == IF IsSet(before) THEN OffsetDecode(before[1]) ELSE [err |-> "", offset |-> 0]
        fail(e) == [err |-> e, after |-> None, before |-> None]
    IN  IF a.err # "" THEN fail(a.err)
        ELSE IF b.err # "" THEN fail(b.err)
        ELSE IF IsSet(after) /\ IsSet(before) /\ a.offset >= b.offset
        THEN fail("after >= before")
        ELSE [err |-> "",
              after |-> IF IsSet(after) THEN Some(a.offset) ELSE None,
              before |-> IF IsSet(before) THEN Some(b.offset) ELSE None]

parseOffsetCursors(after, before) ==
    LET a == IF IsSet(after) THEN OffsetDecode(after[1]) ELSE [err |-> "", offset |-> 0]
        b == IF IsSet(before) THEN OffsetDecode(before[1]) ELSE [err |-> "", offset |-> 0]
        fail(e) == [err |-> e, after |-> None, before |-> None]
    IN  IF a.err # "" THEN fail(a.err)
        ELSE IF b.err # "" THEN fail(b.err)
        ELSE IF IsSet(after) /\ a.offset < 0 THEN fail("after < 0")
        ELSE IF IsSet(before) /\ b.offset < 0 THEN fail("before < 0")
        ELSE IF IsSet(after) /\ IsSet(before) /\ a.offset >= b.offset
        THEN fail("after >= before")
        ELSE [err |-> "",
              after |-> IF IsSet(after) THEN Some(a.offset) ELSE None,
              before |-> IF IsSet(before) THEN Some(b.offset) ELSE None]

----------------------------------------------------------------------------
(* The gorm keyset finder: src/gormrelay/keyset.go *)

\* Faulty variant: the comparisons are OR'd without the equalities before them.
createWhereExprNoEquality(orderBys, keyset, reverse, row) ==
    \E i \in 1..Len(orderBys) :
        LET f == orderBys[i].Field
            desc == (orderBys[i].Desc # reverse)
        IN  IF desc THEN row[f] < keyset[f] ELSE row[f] > keyset[f]

\* The row predicate that the clause.Or(...) tree of createWhereExpr denotes:
\* for each position i, equality on the fields before i AND the strict
\* comparison at i (Lt when desc, Gt otherwise), OR'd over all i.
createWhereExpr(orderBys, keyset, reverse, row) ==
    \E i \in 1..Len(orderBys) :
        /\ \A j \in 1..(i - 1) :
              row[orderBys[j].Field] = keyset[orderBys[j].Field]
        /\ LET f == orderBys[i].Field
               desc == (orderBys[i].Desc # reverse)
           IN  IF desc THEN row[f] < keyset[f] ELSE row[f] > keyset[f]

createWhereExprErr(orderBys, keyset) ==
    \E i \in 1..Len(orderBys) : orderBys[i].Field \notin DOMAIN keyset

\* SQL ORDER BY over the columns cols, each with its own direction.
OrderLess(r, q, cols) ==
    \E i \in 1..Len(cols) :
        /\ \A j \in 1..(i - 1) : r[cols[j].Field] = q[cols[j].Field]
        /\ LET f == cols[i].Field
           IN  IF cols[i].Desc THEN r[f] > q[f] ELSE r[f] < q[f]

SqlOrderBy(rows, cols) ==
    [i \in 1..Cardinality(rows) |->
        CHOOSE r \in rows : Cardinality({q \in rows : OrderLess(q, r, cols)}) = i - 1]

\* Faulty variant: the ORDER BY drops the Desc of the order fields.
scopeOrderByAllAsc(orderBys, fromLast) ==
    [i \in 1..Len(orderBys) |-> [Field |-> orderBys[i].Field, Desc |-> fromLast]]

\* The ORDER BY columns of scopeKeyset: fromLast flips every direction.
scopeOrderBy(orderBys, fromLast) ==
    [i \in 1..Len(orderBys) |->
        [Field |-> orderBys[i].Field, Desc |-> (orderBys[i].Desc # fromLast)]]

\* WHERE after AND before, ORDER BY, LIMIT. after/before are optional keysets.
scopeKeyset(after, before, orderBys, limit, fromLast) ==
    LET rows == {r \in Range(store) :
                    /\ IsSet(after) => createWhereExpr(orderBys, after[1], FALSE, r)
                    /\ IsSet(before) => createWhereExpr(orderBys, before[1], TRUE, r)}
        ordered == SqlOrderBy(rows, scopeOrderBy(orderBys, fromLast))
    IN  Take(ordered, limit)

\* Faulty variant: the rows fetched fromLast are returned as fetched.
KeysetFindNotReversed(after, before, orderBys, limit, fromLast) ==
    IF limit = 0 THEN [err |-> "", nodes |-> <<>>]
    ELSE IF \/ (IsSet(after) /\ createWhereExprErr(orderBys, after[1]))
            \/ (IsSet(before) /\ createWhereExprErr(orderBys, before[1]))
    THEN [err |-> "find: missing field in keyset", nodes |-> <<>>]
    ELSE [err |-> "", nodes |-> scopeKeyset(after, before, orderBys, limit, fromLast)]

KeysetFind(after, before, orderBys, limit, fromLast) ==
    IF limit = 0 THEN [err |-> "", nodes |-> <<>>]
    ELSE IF \/ (IsSet(after) /\ createWhereExprErr(orderBys, after[1]))
            \/ (IsSet(before) /\ createWhereExprErr(orderBys, before[1]))
    THEN [err |-> "find: missing field in keyset", nodes |-> <<>>]
    ELSE LET nodes == scopeKeyset(after, before, orderBys, limit, fromLast)
         IN  [err |-> "", nodes |-> IF fromLast THEN Reverse(nodes) ELSE nodes]

Count == Len(store)

----------------------------------------------------------------------------
(* The gorm offset finder *)

OffsetFind(orderBys, skip, limit) ==
    IF limit = 0 THEN [err |-> "", nodes |-> <<>>]
    ELSE LET ordered == SqlOrderBy(Range(store), orderBys)
             n == Len(ordered)
         IN  [err |-> "",
              nodes |-> IF skip >= n THEN <<>>
                        ELSE SubSeq(ordered, skip + 1, Min(skip + limit, n))]

----------------------------------------------------------------------------
(* The cursor adapters: src/cursor/keyset.go, src/cursor/offset.go *)

NoApplyResponse == [Edges |-> <<>>, TotalCount |-> 0,
                    HasAfterOrPrevious |-> FALSE, HasBeforeOrNext |-> FALSE]

CountCalls == IF hasCounter THEN <<[op |-> "Count"]>> ELSE <<>>

\* Faulty variant: the count misses one row.
TotalCountOffByOne == IF hasCounter THEN Count - 1 ELSE 0

\* var totalCount int; set from counter.Count when the finder is a Counter.
AdapterTotalCount == IF hasCounter THEN Count ELSE 0

NewKeysetAdapter(areq) ==
    LET Respond(keys, dec, totalCount, found, findCalls) ==
            IF found.err # ""
            THEN [err |-> found.err, resp |-> NoApplyResponse, calls |-> findCalls]
            ELSE [err |-> "",
                  resp |-> [Edges |-> [i \in 1..Len(found.nodes) |->
                                          [Node |-> found.nodes[i],
                                           Cursor |-> EncodeKeysetCursor(found.nodes[i],
                                                                         keys)]],
                            TotalCount |-> totalCount,
                            HasAfterOrPrevious |-> IsSet(dec.after),
                            HasBeforeOrNext |-> IsSet(dec.before)],
                  calls |-> findCalls]
        Fetch(keys, dec, totalCount, skipFind) ==
            Respond(keys, dec, totalCount,
                    IF skipFind THEN [err |-> "", nodes |-> <<>>]
                    ELSE KeysetFind(dec.after, dec.before, areq.OrderBys,
                                    areq.Limit, areq.FromLast),
                    IF skipFind THEN CountCalls
                    ELSE CountCalls \o
                         <<[op |-> "Find", after |-> dec.after, before |-> dec.before,
                            limit |-> areq.Limit, fromLast |-> areq.FromLast]>>)
        Decoded(keys, dec, totalCount) ==
            IF dec.err # ""
            THEN [err |-> dec.err, resp |-> NoApplyResponse, calls |-> <<>>]
            ELSE Fetch(keys, dec, totalCount,
                       areq.Limit <= 0 \/ (hasCounter /\ totalCount <= 0))
        WithKeys(keys) ==
            Decoded(keys, decodeKeysetCursors(areq.After, areq.Before, keys),
                    AdapterTotalCount)
    IN  WithKeys(KeysOf(areq.OrderBys))

\* Faulty variant: the fetch starts at the after offset itself, not behind it.
OffsetSkipAtAfter(after, before, reqLimit) ==
    LET skip0 == IF IsSet(after) THEN after[1]
                 ELSE IF IsSet(before) THEN before[1] - reqLimit
                 ELSE 0
    IN  IF skip0 < 0 THEN 0 ELSE skip0

\* Faulty variant: the fetch starts two rows behind the after offset.
OffsetSkipTwoBehind(after, before, reqLimit) ==
    LET skip0 == IF IsSet(after) THEN after[1] + 2
                 ELSE IF IsSet(before) THEN before[1] - reqLimit
                 ELSE 0
    IN  IF skip0 < 0 THEN 0 ELSE skip0

\* limit and skip of the ranged fetch, from the decoded after/before offsets.
OffsetSkip(after, before, reqLimit) ==
    LET skip0 == IF IsSet(after) THEN after[1] + 1
                 ELSE IF IsSet(before) THEN before[1] - reqLimit
                 ELSE 0
    IN  IF skip0 < 0 THEN 0 ELSE skip0

\* Faulty variant: the limit is not capped at the before offset.
OffsetLimitUncapped(after, before, reqLimit) == reqLimit

OffsetLimit(after, before, reqLimit) ==
    LET skip == OffsetSkip(after, before, reqLimit)
        rangeLen0 == IF IsSet(before) THEN before[1] - skip ELSE 0
        rangeLen == IF rangeLen0 < 0 THEN 0 ELSE rangeLen0
    IN  IF IsSet(before) /\ reqLimit > rangeLen THEN rangeLen ELSE reqLimit

\* Faulty variant: edge offsets counted from one.
EdgeOffsetOneBased(skip, i) == skip + i

\* The offset encoded for the i-th fetched node (i from 1): skip+i in the
\* zero-based loop of the adapter.
EdgeOffset(skip, i) == skip + i - 1

\* Faulty variant: the cursor is compared with totalCount without a counter too.
OffsetCursorFlagCounted(cur, totalCount) == IsSet(cur) /\ cur[1] < totalCount

\* HasAfterOrPrevious / HasBeforeOrNext of the offset adapter: with a counter
\* the cursor must lie below totalCount; without one it only has to be set.
OffsetCursorFlag(cur, totalCount) ==
    IF hasCounter THEN IsSet(cur) /\ cur[1] < totalCount ELSE IsSet(cur)

NewOffsetAdapter(areq) ==
    LET Respond(dec, totalCount, skip, found, findCalls) ==
            IF found.err # ""
            THEN [err |-> found.err, resp |-> NoApplyResponse, calls |-> findCalls]
            ELSE [err |-> "",
                  resp |-> [Edges |-> [i \in 1..Len(found.nodes) |->
                                          [Node |-> found.nodes[i],
                                           Cursor |-> OffsetEncode(EdgeOffset(skip, i))]],
                            TotalCount |-> totalCount,
                            HasAfterOrPrevious |->
                                OffsetCursorFlag(dec.after, totalCount),
                            HasBeforeOrNext |->
                                OffsetCursorFlag(dec.before, totalCount)],
                  calls |-> findCalls]
        Fetch(dec, totalCount, skip, limit, skipFind) ==
            Respond(dec, totalCount, skip,
                    IF skipFind THEN [err |-> "", nodes |-> <<>>]
                    ELSE OffsetFind(areq.OrderBys, skip, limit),
                    IF skipFind THEN CountCalls
                    ELSE CountCalls \o <<[op |-> "Find", skip |-> skip, limit |-> limit]>>)
        Ranged(dec, totalCount, skip, limit) ==
            Fetch(dec, totalCount, skip, limit,
                  limit <= 0 \/ (hasCounter /\ skip >= totalCount))
        Decoded(dec, totalCount) ==
            IF dec.err # ""
            THEN [err |-> dec.err, resp |-> NoApplyResponse, calls |-> <<>>]
            ELSE Ranged(dec, totalCount,
                        OffsetSkip(dec.after, dec.before, areq.Limit),
                        OffsetLimit(dec.after, dec.before, areq.Limit))
    IN  Decoded(parseOffsetCursors(areq.After, areq.Before), AdapterTotalCount)

applyCursorsFunc(m, areq) ==
    IF m = "keyset" THEN NewKeysetAdapter(areq) ELSE NewOffsetAdapter(areq)

----------------------------------------------------------------------------
(* Cursor transform wrappers: cursor.WrapBase64, cursor.WrapAES *)

\* The key the AES wrapper of the engine is built with, and another key.
EngineKey == "key"

OtherKey == "other key"

\* A cursor string as a wrapper reads it: enc = "base64" is the base64 of
\* text, enc = "aes" is text sealed under key (intact unless a byte of it was
\* changed), enc = "plain" is a string that is neither.
WrapCursor(w, c) ==
    [enc |-> w, key |-> IF w = "aes" THEN EngineKey ELSE "", intact |-> TRUE,
     text |-> c]

\* Faulty variant: the authentication tag and the key are not checked.
UnwrapCursorUnchecked(w, x) == [ok |-> x.enc = w, text |-> x.text]

\* Faulty variant: no cursor is accepted back.
UnwrapCursorNone(w, x) == [ok |-> FALSE, text |-> x.text]

\* Base64 decodes every base64 string; AES opens what was sealed under its
\* key and is intact.
UnwrapCursor(w, x) ==
    [ok |-> /\ x.enc = w
            /\ w = "aes" => (x.key = EngineKey /\ x.intact),
     text |-> x.text]

\* A wrapper around the adapter: it decodes After and Before of the request,
\* calls the inner adapter (recorded as the call "Apply"), hands its error on
\* as it is, and encodes the cursor of every edge of its response. The
\* wrapper "mock error" of the tests leaves the request alone and replaces the
\* cursor function of every edge by one that fails.
ApplyChain(w, m, areq) ==
    LET Encoded(applied) ==
            IF applied.err # "" THEN applied
            ELSE [err |-> "",
                  resp |-> [Edges |-> [i \in DOMAIN applied.resp.Edges |->
                                          [Node |-> applied.resp.Edges[i].Node,
                                           Cursor |-> WrapCursor(
                                               w, applied.resp.Edges[i].Cursor)]],
                            TotalCount |-> applied.resp.TotalCount,
                            HasAfterOrPrevious |-> applied.resp.HasAfterOrPrevious,
                            HasBeforeOrNext |-> applied.resp.HasBeforeOrNext],
                  calls |-> applied.calls]
        Reached(applied) ==
            [err |-> applied.err, resp |-> applied.resp,
             calls |-> <<[op |-> "Apply"]>> \o applied.calls]
        Inner(after, before) ==
            Encoded(Reached(applyCursorsFunc(
                m, [After |-> after, Before |-> before, OrderBys |-> areq.OrderBys,
                    Limit |-> areq.Limit, FromLast |-> areq.FromLast])))
        Unwrapped(a, b) ==
            IF IsSet(a) /\ ~a[1].ok
            THEN [err |-> "invalid after cursor", resp |-> NoApplyResponse,
                  calls |-> <<>>]
            ELSE IF IsSet(b) /\ ~b[1].ok
            THEN [err |-> "invalid before cursor", resp |-> NoApplyResponse,
                  calls |-> <<>>]
            ELSE Inner(IF IsSet(a) THEN Some(a[1].text) ELSE None,
                       IF IsSet(b) THEN Some(b[1].text) ELSE None)
    IN  IF w = "none" THEN applyCursorsFunc(m, areq)
        ELSE IF w = "mock error" THEN Reached(applyCursorsFunc(m, areq))
        ELSE Unwrapped(IF IsSet(areq.After)
                       THEN Some(UnwrapCursor(w, areq.After[1])) ELSE None,
                       IF IsSet(areq.Before)
                       THEN Some(UnwrapCursor(w, areq.Before[1])) ELSE None)

----------------------------------------------------------------------------
(* The pagination engine: pagination.New(...).Paginate *)

\* Faulty variant: only order bys repeated with the same direction count.
DuplicatedFieldsSameDirection(orderBys) ==
    LET firsts == {i \in DOMAIN orderBys :
                      /\ \A j \in 1..(i - 1) : orderBys[j] # orderBys[i]
                      /\ \E j \in (i + 1)..Len(orderBys) : orderBys[j] = orderBys[i]}
    IN  [n \in 1..Cardinality(firsts) |->
            orderBys[CHOOSE i \in firsts :
                        Cardinality({j \in firsts : j < i}) = n - 1].Field]

\* The field names that occur more than once, in the order of their first
\* occurrence.
DuplicatedFields(orderBys) ==
    LET firsts == {i \in DOMAIN orderBys :
                      /\ \A j \in 1..(i - 1) : orderBys[j].Field # orderBys[i].Field
                      /\ \E j \in (i + 1)..Len(orderBys) :
                             orderBys[j].Field = orderBys[i].Field}
    IN  [n \in 1..Cardinality(firsts) |->
            orderBys[CHOOSE i \in firsts :
                        Cardinality({j \in firsts : j < i}) = n - 1].Field]

RECURSIVE JoinFields(_)
\* A []string as %v prints it, without the brackets.
JoinFields(fields) ==
    IF Len(fields) = 0 THEN ""
    ELSE IF Len(fields) = 1 THEN fields[1]
    ELSE fields[1] \o " " \o JoinFields(Tail(fields))

DuplicatedError(fields) == "duplicated order by fields [" \o JoinFields(fields) \o "]"

EffectiveOrderBys(r) == IF Len(r.OrderBys) > 0 THEN r.OrderBys ELSE orderBysIfNotSet

ResolvedLimit(r) ==
    IF IsSet(r.First) THEN r.First[1]
    ELSE IF IsSet(r.Last) THEN r.Last[1]
    ELSE limitIfNotSet

\* Faulty variant: the validation without the first/last conflict check.
ValidateRequestNoConflict(r) ==
    IF IsSet(r.First) /\ r.First[1] < 0 THEN "first must be a non-negative integer"
    ELSE IF IsSet(r.Last) /\ r.Last[1] < 0 THEN "last must be a non-negative integer"
    ELSE IF IsSet(r.First) /\ r.First[1] > maxLimit
    THEN "first must be less than or equal to max limit"
    ELSE IF IsSet(r.Last) /\ r.Last[1] > maxLimit
    THEN "last must be less than or equal to max limit"
    ELSE IF DuplicatedFields(EffectiveOrderBys(r)) # <<>>
    THEN DuplicatedError(DuplicatedFields(EffectiveOrderBys(r)))
    ELSE ""

\* Faulty variant: the max limit itself is refused.
ValidateRequestMaxExclusive(r) ==
    IF IsSet(r.First) /\ IsSet(r.Last) THEN "first and last cannot be used together"
    ELSE IF IsSet(r.First) /\ r.First[1] < 0 THEN "first must be a non-negative integer"
    ELSE IF IsSet(r.Last) /\ r.Last[1] < 0 THEN "last must be a non-negative integer"
    ELSE IF IsSet(r.First) /\ r.First[1] >= maxLimit
    THEN "first must be less than or equal to max limit"
    ELSE IF IsSet(r.Last) /\ r.Last[1] >= maxLimit
    THEN "last must be less than or equal to max limit"
    ELSE IF DuplicatedFields(EffectiveOrderBys(r)) # <<>>
    THEN DuplicatedError(DuplicatedFields(EffectiveOrderBys(r)))
    ELSE ""

\* The request-level validation, in order; "" when the request is accepted.
ValidateRequest(r) ==
    IF IsSet(r.First) /\ IsSet(r.Last) THEN "first and last cannot be used together"
    ELSE IF IsSet(r.First) /\ r.First[1] < 0 THEN "first must be a non-negative integer"
    ELSE IF IsSet(r.Last) /\ r.Last[1] < 0 THEN "last must be a non-negative integer"
    ELSE IF IsSet(r.First) /\ r.First[1] > maxLimit
    THEN "first must be less than or equal to max limit"
    ELSE IF IsSet(r.Last) /\ r.Last[1] > maxLimit
    THEN "last must be less than or equal to max limit"
    ELSE IF DuplicatedFields(EffectiveOrderBys(r)) # <<>>
    THEN DuplicatedError(DuplicatedFields(EffectiveOrderBys(r)))
    ELSE ""

\* Faulty variant: the fetched edges are returned untrimmed.
TrimEdgesKeepAll(edges, limit, fromLast) == edges

\* The page kept out of the fetched edges: the first limit edges of a forward
\* request, the last limit edges of a fromLast request.
TrimEdges(edges, limit, fromLast) ==
    IF Len(edges) <= limit THEN edges
    ELSE IF fromLast THEN SubSeq(edges, Len(edges) - limit + 1, Len(edges))
    ELSE SubSeq(edges, 1, limit)

\* The engine asks the adapter for one row more than the page, so that a row
\* beyond the page proves HasNextPage (HasPreviousPage when fromLast).
ApplyCursorsRequest(r) ==
    [After |-> r.After, Before |-> r.Before, OrderBys |-> EffectiveOrderBys(r),
     Limit |-> ResolvedLimit(r) + 1, FromLast |-> IsSet(r.Last)]

PageInfoOf(applied, edges, limit, fromLast) ==
    [TotalCount |-> applied.TotalCount,
     HasNextPage |-> (~fromLast /\ Len(applied.Edges) > limit) \/ applied.HasBeforeOrNext,
     HasPreviousPage |-> (fromLast /\ Len(applied.Edges) > limit)
                            \/ applied.HasAfterOrPrevious,
     StartCursor |-> IF Len(edges) = 0 THEN None ELSE Some(edges[1].Cursor),
     EndCursor |-> IF Len(edges) = 0 THEN None ELSE Some(edges[Len(edges)].Cursor)]

PaginateVia(w, only, m, r) ==
    LET Page(applied, edges, limit, fromLast) ==
            [Edges |-> IF only THEN <<>> ELSE edges,
             Nodes |-> [i \in 1..Len(edges) |-> edges[i].Node],
             PageInfo |-> PageInfoOf(applied, edges, limit, fromLast)]
        Applied(applied, limit, fromLast) ==
            IF applied.err # ""
            THEN [err |-> applied.err, resp |-> None, calls |-> applied.calls]
            ELSE IF /\ w = "mock error"
                    /\ Len(TrimEdges(applied.resp.Edges, limit, fromLast)) > 0
            THEN [err |-> "mock error", resp |-> None, calls |-> applied.calls]
            ELSE [err |-> "",
                  resp |-> Some(Page(applied.resp,
                                     TrimEdges(applied.resp.Edges, limit, fromLast),
                                     limit, fromLast)),
                  calls |-> applied.calls]
        Validated(verr) ==
            IF verr # "" THEN [err |-> verr, resp |-> None, calls |-> <<>>]
            ELSE Applied(ApplyChain(w, m, ApplyCursorsRequest(r)),
                         ResolvedLimit(r), IsSet(r.Last))
    IN  Validated(ValidateRequest(r))

\* Paginate of the engine as it is configured: through its wrapper, if any.
PaginateWith(only, m, r) == PaginateVia(wrap, only, m, r)

Paginate(m, r) == PaginateWith(nodesOnly, m, r)

----------------------------------------------------------------------------
(* The state machine: an engine constructed over a table, then called *)

\* The tables of the model: n rows with primary keys 1..n, whose ages repeat
\* with period MaxAge, so that an order by Age has ties that ID breaks.
Stores == {[i \in 1..n |-> [ID |-> i, Age |-> 1 + (i % MaxAge)]] : n \in 0..MaxN}

IDAscAgeDesc == <<[Field |-> "ID", Desc |-> FALSE], [Field |-> "Age", Desc |-> TRUE]>>

AgeDescIDAsc == <<[Field |-> "Age", Desc |-> TRUE], [Field |-> "ID", Desc |-> FALSE]>>

IDAscIDDesc == <<[Field |-> "ID", Desc |-> FALSE], [Field |-> "ID", Desc |-> TRUE]>>

AgeIDTwice == AgeDescIDAsc \o
              <<[Field |-> "ID", Desc |-> TRUE], [Field |-> "Age", Desc |-> FALSE]>>

RequestOrderBys == {<<>>, AgeDescIDAsc, IDAscIDDesc, AgeIDTwice}

\* The default orders an engine is constructed with: any non-empty one.
DefaultOrderBys == {IDAscAgeDesc, IDAscIDDesc}

NoRequest == [First |-> None, Last |-> None, After |-> None, Before |-> None,
              OrderBys |-> <<>>]

\* The cursor that the adapter of mode m emits for the k-th row of the table
\* in the order orderBys.
CursorAt(m, orderBys, k) ==
    IF m = "keyset"
    THEN EncodeKeysetCursor(SqlOrderBy(Range(store), orderBys)[k], KeysOf(orderBys))
    ELSE OffsetEncode(k - 1)

\* Another text of the same cursor: the JSON members in the opposite order,
\* the offset written with a plus sign.
OtherTextCursorAt(m, orderBys, k) ==
    IF m = "keyset"
    THEN Reverse(CursorAt(m, orderBys, k))
    ELSE OffsetSignedTable[CHOOSE i \in DOMAIN OffsetSignedTable :
                              OffsetSignedTable[i][1] = k - 1][3]

Limits == {None} \cup {Some(v) : v \in (0 - 1)..(maxLimit + 1)}

\* The positions a cursor of a request may denote: the rows of the table and,
\* for an offset cursor, the position just beyond the last row.
LastPosition == Len(store) + (IF mode = "offset" THEN 1 ELSE 0)

Positions == {None} \cup {Some(k) : k \in 1..LastPosition}

\* An engine whose adapter is not wrapped, called as a whole and not followed
\* from page to page.
PlainEngine == wrap = "none" /\ walk = <<>> /\ inv = <<>>

\* Faulty variant: the default order is not checked.
ConfigErrorNoOrderCheck(maxL, limit, orderBys, m) ==
    IF limit <= 0 THEN "limitIfNotSet must be greater than 0"
    ELSE IF maxL < limit THEN "maxLimit must be greater than or equal to limitIfNotSet"
    ELSE IF m = "nil" THEN "applyCursorsFunc must be set"
    ELSE ""

\* The panic value of pagination.New for a configuration, "" when it returns
\* an engine.
ConfigError(maxL, limit, orderBys, m) ==
    IF limit <= 0 THEN "limitIfNotSet must be greater than 0"
    ELSE IF maxL < limit THEN "maxLimit must be greater than or equal to limitIfNotSet"
    ELSE IF Len(orderBys) = 0 THEN "orderBysIfNotSet must be set"
    ELSE IF m = "nil" THEN "applyCursorsFunc must be set"
    ELSE ""

\* The arguments that pagination.New is about to be called with: mode "nil"
\* is a nil applyCursorsFunc, <<>> a nil or empty orderBysIfNotSet.
Init ==
    /\ store \in Stores
    /\ mode \in {"keyset", "offset", "nil"}
    /\ nodesOnly \in BOOLEAN
    /\ hasCounter \in BOOLEAN
    /\ limitIfNotSet \in (0 - 1)..MaxCfgLimit
    /\ maxLimit \in (0 - 1)..MaxCfgLimit
    /\ orderBysIfNotSet \in DefaultOrderBys \cup {<<>>}
    /\ req = NoRequest
    /\ resp = None
    /\ err = ""
    /\ calls = <<>>
    /\ phase = "constructing"
    /\ codecIn = None
    /\ codecOut = None
    /\ PlainEngine

\* pagination.New: panics on a configuration error, else returns the engine.
New ==
    /\ phase = "constructing"
    /\ err' = ConfigError(maxLimit, limitIfNotSet, orderBysIfNotSet, mode)
    /\ phase' = IF err' # "" THEN "panicked" ELSE "idle"
    /\ UNCHANGED <<store, mode, nodesOnly, hasCounter, maxLimit, limitIfNotSet,
                   orderBysIfNotSet, req, resp, calls, codecIn, codecOut, extVars>>

PaginateCall(first, last, after, before, otherText, orderBys) ==
    LET Returned(r, out) ==
            /\ req' = r
            /\ resp' = out.resp
            /\ err' = out.err
            /\ calls' = out.calls
            /\ phase' = "returned"
            /\ UNCHANGED <<store, mode, nodesOnly, hasCounter, maxLimit, limitIfNotSet,
                           orderBysIfNotSet, codecIn, codecOut, extVars>>
        Invoke(r) == Returned(r, Paginate(mode, r))
        With(obs) ==
            Invoke([First |-> first, Last |-> last,
                    After |-> IF IsSet(after)
                              THEN Some(CursorAt(mode, obs, after[1])) ELSE None,
                    Before |-> IF IsSet(before)
                               THEN Some(IF otherText
                                         THEN OtherTextCursorAt(mode, obs, before[1])
                                         ELSE CursorAt(mode, obs, before[1]))
                               ELSE None,
                    OrderBys |-> orderBys])
    IN  With(IF Len(orderBys) > 0 THEN orderBys ELSE orderBysIfNotSet)

\* The caller has consumed the response; the engine keeps nothing of the call.
Return ==
    /\ phase = "returned"
    /\ req' = NoRequest
    /\ resp' = None
    /\ err' = ""
    /\ calls' = <<>>
    /\ phase' = "idle"
    /\ UNCHANGED <<store, mode, nodesOnly, hasCounter, maxLimit, limitIfNotSet,
                   orderBysIfNotSet, codecIn, codecOut, extVars>>

\* A caller invokes Paginate with some request; the cursors it passes are
\* cursors of rows of the table.
Call ==
    /\ phase = "idle"
    /\ \E first \in Limits, last \in Limits, after \in Positions, before \in Positions,
          orderBys \in RequestOrderBys :
          \E otherText \in {b \in BOOLEAN : b => IsSet(before)} :
              PaginateCall(first, last, after, before, otherText, orderBys)

Next == New \/ Call \/ Return

Spec == Init /\ [][Next]_vars

----------------------------------------------------------------------------
(* Vocabulary of the properties *)

\* The table in the effective order of the last request.
Ordered == SqlOrderBy(Range(store), EffectiveOrderBys(req))

Accepted == phase = "returned" /\ err = "" /\ IsSet(resp)

PageNodes == resp[1].Nodes

PageInfo == resp[1].PageInfo

\* The position in Ordered of the row whose cursor c is.
PosOf(c) ==
    CHOOSE k \in 1..LastPosition :
        \/ CursorAt(mode, EffectiveOrderBys(req), k) = c
        \/ OtherTextCursorAt(mode, EffectiveOrderBys(req), k) = c

\* The rows strictly after position a (when set) and strictly before position
\* b (when set), in order.
Window(a, b) ==
    LET lo == IF IsSet(a) THEN a[1] + 1 ELSE 1
        hi == IF IsSet(b) THEN b[1] - 1 ELSE Len(store)
    IN  IF lo > hi THEN <<>> ELSE SubSeq(Ordered, lo, hi)

AfterPos == IF IsSet(req.After) THEN Some(PosOf(req.After[1])) ELSE None

BeforePos == IF IsSet(req.Before) THEN Some(PosOf(req.Before[1])) ELSE None

LastOf(s, n) == SubSeq(s, Len(s) - Min(n, Len(s)) + 1, Len(s))

\* The cursor of the row at position k of Ordered, nil when k = 0.
CursorOfPos(k) ==
    IF k = 0 THEN None ELSE Some(CursorAt(mode, EffectiveOrderBys(req), k))

----------------------------------------------------------------------------
(* C1 - C10 *)

\* C1: every accepted request returns at most the resolved limit of edges
\* (First if set, else Last if set, else limitIfNotSet), in both modes.
C1_EdgesWithinLimit ==
    Accepted =>
        /\ Len(resp[1].Edges) <= ResolvedLimit(req)
        /\ Len(resp[1].Nodes) <= ResolvedLimit(req)

C1_Witness ==
    /\ Accepted
    /\ ~nodesOnly
    /\ ResolvedLimit(req) >= 1
    /\ Len(resp[1].Edges) = ResolvedLimit(req)
    /\ Len(Window(AfterPos, BeforePos)) > ResolvedLimit(req)

C4_WitnessAfterLast ==
    /\ Accepted /\ IsSet(req.After) /\ ~IsSet(req.Before) /\ ~IsSet(req.Last)
    /\ AfterPos[1] = Len(store)
    /\ PageNodes = <<>>

\* The last request with its cursors re-encoded for the adapter of mode m:
\* the same positions, in that mode's cursor encoding.
RequestIn(m) ==
    [req EXCEPT
        !.After = IF IsSet(AfterPos)
                  THEN Some(CursorAt(m, EffectiveOrderBys(req), AfterPos[1])) ELSE None,
        !.Before = IF IsSet(BeforePos)
                   THEN Some(CursorAt(m, EffectiveOrderBys(req), BeforePos[1])) ELSE None]

NodesOf(edges) == [i \in 1..Len(edges) |-> edges[i].Node]

\* C2: the offset adapter and the keyset adapter are interchangeable: given
\* the same request (After, Before, Limit, FromLast, cursors denoting the same
\* positions) they return the same sequence of records.
C2_AdaptersInterchangeable ==
    (/\ phase = "returned" /\ ValidateRequest(req) = ""
     /\ IsSet(req.After) => AfterPos[1] <= Len(store)
     /\ IsSet(req.Before) => BeforePos[1] <= Len(store)) =>
        LET k == applyCursorsFunc("keyset", ApplyCursorsRequest(RequestIn("keyset")))
            o == applyCursorsFunc("offset", ApplyCursorsRequest(RequestIn("offset")))
        IN  (k.err = "" /\ o.err = "") => NodesOf(k.resp.Edges) = NodesOf(o.resp.Edges)

\* C5: Last = n with Before = cursor of the k-th row returns exactly the
\* min(n, k-1) rows immediately preceding row k, in forward order, with
\* HasNextPage true and HasPreviousPage iff k-1 > n; when After is also set,
\* the rows are the last n of the rows strictly between After and Before.
C5_LastBefore ==
    (/\ Accepted /\ IsSet(req.Last) /\ IsSet(req.Before)
     /\ BeforePos[1] <= Len(store)
     /\ IsSet(req.After) => AfterPos[1] <= Len(store)) =>
        LET n == ResolvedLimit(req)
            k == BeforePos[1]
        IN  /\ PageNodes = LastOf(Window(AfterPos, BeforePos), n)
            /\ PageInfo.HasNextPage = TRUE
            /\ ~IsSet(req.After) => (PageInfo.HasPreviousPage = (k - 1 > n))

\* C6: Last = n with neither After nor Before returns the last min(n, N) rows
\* of the whole ordered table in forward order, HasNextPage false and
\* HasPreviousPage iff N > n.
C6_LastPage ==
    (Accepted /\ IsSet(req.Last) /\ ~IsSet(req.After) /\ ~IsSet(req.Before)) =>
        LET n == ResolvedLimit(req)
        IN  /\ PageNodes = LastOf(Ordered, n)
            /\ PageInfo.HasNextPage = FALSE
            /\ PageInfo.HasPreviousPage = (Len(store) > n)

\* C7: a forward request with Before = cursor of row b and optionally After =
\* cursor of row a returns only rows strictly after a and strictly before b,
\* namely the first min(n, M) of the M rows of that window, with HasNextPage
\* true and HasPreviousPage equal to whether After was supplied.
C7_ForwardBefore ==
    (/\ Accepted /\ ~IsSet(req.Last) /\ IsSet(req.Before)
     /\ BeforePos[1] <= Len(store)
     /\ IsSet(req.After) => AfterPos[1] <= Len(store)) =>
        LET n == ResolvedLimit(req)
            w == Window(AfterPos, BeforePos)
        IN  /\ Range(PageNodes) \subseteq Range(w)
            /\ PageNodes = Take(w, n)
            /\ PageInfo.HasNextPage = TRUE
            /\ PageInfo.HasPreviousPage = IsSet(req.After)

\* C8 as stated: StartCursor and EndCursor are both nil exactly when Edges is
\* empty; otherwise they are the cursors of the first and of the last edge.
C8_CursorsNilIffNoEdges ==
    Accepted =>
        LET edges == resp[1].Edges
        IN  /\ (PageInfo.StartCursor = None /\ PageInfo.EndCursor = None)
                   <=> (edges = <<>>)
            /\ edges # <<>> =>
                   /\ PageInfo.StartCursor = Some(edges[1].Cursor)
                   /\ PageInfo.EndCursor = Some(edges[Len(edges)].Cursor)

\* C8 amended: StartCursor and EndCursor are both nil exactly when the page
\* holds no record; with nodesOnly = false that is exactly when Edges is empty,
\* and otherwise they are the cursors of the first and of the last edge; with
\* nodesOnly = true Edges is empty while the cursors are those of the first
\* and of the last node of the page.
C8_CursorsNilIffEmptyPage ==
    Accepted =>
        LET edges == resp[1].Edges
            first == PageNodes[1]
            last == PageNodes[Len(PageNodes)]
        IN  /\ (PageInfo.StartCursor = None) <=> (PageNodes = <<>>)
            /\ (PageInfo.EndCursor = None) <=> (PageNodes = <<>>)
            /\ ~nodesOnly =>
                   /\ NodesOf(edges) = PageNodes
                   /\ edges # <<>> =>
                          /\ PageInfo.StartCursor = Some(edges[1].Cursor)
                          /\ PageInfo.EndCursor = Some(edges[Len(edges)].Cursor)
            /\ nodesOnly =>
                   /\ edges = <<>>
                   /\ PageNodes # <<>> =>
                          /\ PageInfo.StartCursor
                                 = CursorOfPos(CHOOSE p \in 1..Len(store) : Ordered[p] = first)
                          /\ PageInfo.EndCursor
                                 = CursorOfPos(CHOOSE p \in 1..Len(store) : Ordered[p] = last)

C8_Witness ==
    /\ Accepted
    /\ ~nodesOnly
    /\ Len(resp[1].Edges) >= 1
    /\ IsSet(req.After)
    /\ PageInfo.StartCursor = Some(resp[1].Edges[1].Cursor)

C8_WitnessNodesOnly ==
    /\ Accepted
    /\ nodesOnly
    /\ PageNodes # <<>>
    /\ resp[1].Edges = <<>>
    /\ IsSet(PageInfo.StartCursor)

C10_FirstAndLastRejected ==
    (phase = "returned" /\ IsSet(req.First) /\ IsSet(req.Last)) =>
        /\ err = "first and last cannot be used together"
        /\ resp = None
        /\ calls = <<>>

C10_Witness ==
    /\ phase = "returned"
    /\ IsSet(req.First) /\ IsSet(req.Last)
    /\ req.First[1] >= 0 /\ req.Last[1] >= 0
    /\ IsSet(req.After)
    /\ err = "first and last cannot be used together"

----------------------------------------------------------------------------
(* C11 - C20 *)

LimitErrors ==
    {"first must be a non-negative integer", "last must be a non-negative integer",
     "first must be less than or equal to max limit",
     "last must be less than or equal to max limit"}

\* C11: a request whose one set limit (First or Last) is negative is rejected
\* with "first/last must be a non-negative integer", one above maxLimit with
\* "first/last must be less than or equal to max limit", each naming the
\* field and with a nil response; a limit of exactly 0 or exactly maxLimit
\* raises none of these errors.
C11_LimitOutsideRangeRejected ==
    (phase = "returned" /\ ~(IsSet(req.First) /\ IsSet(req.Last))) =>
        /\ (IsSet(req.First) /\ req.First[1] < 0) =>
               (err = "first must be a non-negative integer" /\ resp = None)
        /\ (IsSet(req.Last) /\ req.Last[1] < 0) =>
               (err = "last must be a non-negative integer" /\ resp = None)
        /\ (IsSet(req.First) /\ req.First[1] > maxLimit) =>
               (err = "first must be less than or equal to max limit" /\ resp = None)
        /\ (IsSet(req.Last) /\ req.Last[1] > maxLimit) =>
               (err = "last must be less than or equal to max limit" /\ resp = None)
        /\ (IsSet(req.First) /\ req.First[1] \in {0, maxLimit}) => err \notin LimitErrors
        /\ (IsSet(req.Last) /\ req.Last[1] \in {0, maxLimit}) => err \notin LimitErrors

C11_Witness ==
    /\ phase = "returned"
    /\ ~IsSet(req.First) /\ IsSet(req.Last)
    /\ req.Last[1] = maxLimit + 1
    /\ err = "last must be less than or equal to max limit"

C11_WitnessAtMax ==
    /\ Accepted
    /\ IsSet(req.First) /\ req.First[1] = maxLimit
    /\ Len(PageNodes) = maxLimit

\* The fields that the effective OrderBys of the last request name twice or more.
RepeatedFields ==
    LET obs == EffectiveOrderBys(req)
    IN  {f \in {obs[i].Field : i \in DOMAIN obs} :
            Cardinality({i \in DOMAIN obs : obs[i].Field = f}) >= 2}

\* The sequences that list every element of the set S exactly once.
Listings(S) ==
    {q \in [1..Cardinality(S) -> S] : \A f \in S : \E i \in DOMAIN q : q[i] = f}

C12_WitnessTwoFields ==
    /\ phase = "returned"
    /\ req.OrderBys = AgeIDTwice
    /\ err = "duplicated order by fields [Age ID]"

C12_WitnessDefault ==
    /\ phase = "returned"
    /\ req.OrderBys = <<>>
    /\ orderBysIfNotSet = IDAscIDDesc
    /\ err = "duplicated order by fields [ID]"

\* C13: constructing the engine panics exactly when limitIfNotSet <= 0,
\* maxLimit < limitIfNotSet, applyCursorsFunc is nil, or orderBysIfNotSet is
\* nil or empty; every other configuration yields an engine, and only an
\* engine so constructed ever serves a call.
C13_ConstructionFails ==
    LET invalid == \/ limitIfNotSet <= 0
                   \/ maxLimit < limitIfNotSet
                   \/ mode = "nil"
                   \/ Len(orderBysIfNotSet) = 0
    IN  /\ phase # "constructing" => ((phase = "panicked") <=> invalid)
        /\ phase = "panicked" => (err # "" /\ resp = None /\ calls = <<>>)
        /\ phase \in {"idle", "returned"} => ~invalid

C13_Witness ==
    /\ phase = "panicked"
    /\ limitIfNotSet >= 1 /\ maxLimit >= limitIfNotSet /\ mode # "nil"
    /\ orderBysIfNotSet = <<>>
    /\ err = "orderBysIfNotSet must be set"

C13_WitnessNilFunc ==
    /\ phase = "panicked"
    /\ limitIfNotSet >= 1 /\ maxLimit >= limitIfNotSet /\ mode = "nil"
    /\ orderBysIfNotSet # <<>>

C13_WitnessConstructed ==
    /\ phase = "idle"
    /\ limitIfNotSet = maxLimit

\* C14: in keyset and in offset mode, every request that passes the engine's
\* validation and whose After and Before are both set and decode to the same
\* cursor value is rejected with "after == before", also when the two cursor
\* strings differ textually.
C14_AfterEqualsBeforeRejected ==
    (/\ phase = "returned"
     /\ ValidateRequest(req) = ""
     /\ IsSet(req.After) /\ IsSet(req.Before)
     /\ AfterPos = BeforePos) =>
        /\ err = "after == before"
        /\ resp = None

----------------------------------------------------------------------------
(* The cursor codecs called on their own *)

mainVars == <<store, mode, nodesOnly, hasCounter, maxLimit, limitIfNotSet,
              orderBysIfNotSet, req, resp, err, calls>>

\* Field names a key list may hold; the records have no Name.
CodecFields == {"ID", "Age", "Name"}

KeyLists == UNION {[1..n -> CodecFields] : n \in 0..2}

\* Records whose ID is small, and records whose ID is beyond the integers
\* that a float64 holds exactly.
NarrowNodes == {[ID |-> i, Age |-> a] : i \in 1..2, a \in 1..MaxAge}

WideNodes == {[ID |-> TwoToMantissa + lo, Age |-> a] : lo \in 0..MaxWide, a \in 1..MaxAge}

\* Cursor strings that did not come out of the encoder: JSON objects of up to
\* two members.
GivenCursors == UNION {[1..n -> {<<f, 1>> : f \in CodecFields}] : n \in 0..2}

\* Order by lists of one or two of the columns ID and Age, in any directions.
WhereOrderBys ==
    UNION {[1..n -> {[Field |-> f, Desc |-> d] : f \in {"ID", "Age"}, d \in BOOLEAN}] :
              n \in 1..2}

\* Rows and keysets over a few values of each column.
WhereRows == {[ID |-> i, Age |-> a] : i \in 1..(MaxAge + 1), a \in 1..(MaxAge + 1)}

\* The offset cursors a client may send: the encoder's text of an integer,
\* negative ones included, the text with an explicit plus sign, text that is
\* not base64 and base64 of text that is not a number.
GivenOffsets ==
    {[kind |-> "int", n |-> o] : o \in (0 - 2)..MaxPage}
        \cup {[kind |-> "signed", n |-> o] : o \in 0..1}
        \cup {[kind |-> "malformed", n |-> o] : o \in 0..1}

OffsetText(g) ==
    IF g.kind = "int" THEN OffsetEncode(g.n)
    ELSE IF g.kind = "signed"
    THEN OffsetSignedTable[CHOOSE i \in DOMAIN OffsetSignedTable :
                              OffsetSignedTable[i][1] = g.n][3]
    ELSE IF g.n = 0 THEN "invalid" ELSE "YWJj"

CodecInit ==
    /\ nodesOnly = FALSE
    /\ maxLimit = MaxCfgLimit
    /\ limitIfNotSet = MaxCfgLimit
    /\ orderBysIfNotSet = IDAscAgeDesc
    /\ req = NoRequest
    /\ resp = None
    /\ err = ""
    /\ calls = <<>>
    /\ phase = "codec"
    /\ codecOut = None
    /\ PlainEngine
    /\ \/ /\ store = <<>>
          /\ mode = "keyset"
          /\ hasCounter = FALSE
          /\ \/ \E n \in NarrowNodes, ks \in KeyLists :
                    codecIn = Some([op |-> "keyset", node |-> n, keys |-> ks])
             \/ \E n \in WideNodes, ks \in KeyLists :
                    codecIn = Some([op |-> "keyset", node |-> n, keys |-> ks])
             \/ \E x \in 0..MaxOffset :
                    codecIn = Some([op |-> "offset", offset |-> x])
             \/ \E c \in GivenCursors, ks \in KeyLists :
                    codecIn = Some([op |-> "decode", cursor |-> c, keys |-> ks])
             \/ \E r \in WhereRows, k \in WhereRows, obs \in WhereOrderBys :
                    codecIn = Some([op |-> "where", row |-> r, keyset |-> k,
                                    orderBys |-> obs])
       \/ /\ store \in {t \in Stores : Len(t) <= MaxPage}
          /\ mode = "offset"
          /\ hasCounter \in BOOLEAN
          /\ \E a \in {None} \cup {Some(g) : g \in GivenOffsets},
                b \in {None} \cup {Some(g) : g \in GivenOffsets} :
                 codecIn = Some([op |-> "paginate", after |-> a, before |-> b])

\* EncodeKeysetCursor returns (cursor, error); its only errors are those of
\* Marshal and Unmarshal, which these records do not raise.
EncodeKeyset ==
    /\ phase = "codec"
    /\ codecIn[1].op = "keyset"
    /\ codecOut' = Some([cursor |-> EncodeKeysetCursor(codecIn[1].node, codecIn[1].keys),
                         err |-> ""])
    /\ phase' = "encoded"
    /\ UNCHANGED <<mainVars, codecIn, extVars>>

DecodeKeyset ==
    /\ phase = "encoded"
    /\ codecIn[1].op = "keyset"
    /\ codecOut' = Some([cursor |-> codecOut[1].cursor,
                         decoded |-> DecodeKeysetCursor(codecOut[1].cursor,
                                                        codecIn[1].keys)])
    /\ phase' = "decoded"
    /\ UNCHANGED <<mainVars, codecIn, extVars>>

EncodeOffset ==
    /\ phase = "codec"
    /\ codecIn[1].op = "offset"
    /\ codecOut' = Some([cursor |-> OffsetEncode(codecIn[1].offset)])
    /\ phase' = "encoded"
    /\ UNCHANGED <<mainVars, codecIn, extVars>>

DecodeOffset ==
    /\ phase = "encoded"
    /\ codecIn[1].op = "offset"
    /\ codecOut' = Some([cursor |-> codecOut[1].cursor,
                         decoded |-> OffsetDecode(codecOut[1].cursor)])
    /\ phase' = "decoded"
    /\ UNCHANGED <<mainVars, codecIn, extVars>>

\* DecodeKeysetCursor on a cursor string that a client sent.
DecodeGiven ==
    /\ phase = "codec"
    /\ codecIn[1].op = "decode"
    /\ codecOut' = Some([cursor |-> codecIn[1].cursor,
                         decoded |-> DecodeKeysetCursor(codecIn[1].cursor,
                                                        codecIn[1].keys)])
    /\ phase' = "decoded"
    /\ UNCHANGED <<mainVars, codecIn, extVars>>

\* The keyset adapter called with that cursor as After, the keys as the
\* ascending OrderBys, over an empty table without Counter.
ApplyGiven ==
    /\ phase = "decoded"
    /\ codecIn[1].op = "decode"
    /\ codecOut' = Some([cursor |-> codecOut[1].cursor,
                         decoded |-> codecOut[1].decoded,
                         applied |-> NewKeysetAdapter(
                             [After |-> Some(codecIn[1].cursor), Before |-> None,
                              OrderBys |-> [i \in DOMAIN codecIn[1].keys |->
                                               [Field |-> codecIn[1].keys[i],
                                                Desc |-> FALSE]],
                              Limit |-> MaxCfgLimit, FromLast |-> FALSE])])
    /\ phase' = "applied"
    /\ UNCHANGED <<mainVars, codecIn, extVars>>

\* createWhereExpr for the after predicate (reverse = false) and the before
\* predicate (reverse = true) of a keyset, evaluated on a row.
WhereExpr ==
    /\ phase = "codec"
    /\ codecIn[1].op = "where"
    /\ codecOut' = Some([after |-> createWhereExpr(codecIn[1].orderBys,
                                                   codecIn[1].keyset, FALSE,
                                                   codecIn[1].row),
                         before |-> createWhereExpr(codecIn[1].orderBys,
                                                    codecIn[1].keyset, TRUE,
                                                    codecIn[1].row)])
    /\ phase' = "evaluated"
    /\ UNCHANGED <<mainVars, codecIn, extVars>>

\* Paginate on the offset engine with the cursors that the client sent.
PaginateGiven ==
    LET Returned(r, out) ==
            /\ req' = r
            /\ resp' = out.resp
            /\ err' = out.err
            /\ calls' = out.calls
        Invoke(r) == Returned(r, Paginate(mode, r))
        Text(g) == IF IsSet(g) THEN Some(OffsetText(g[1])) ELSE None
    IN  /\ phase = "codec"
        /\ codecIn[1].op = "paginate"
        /\ Invoke([First |-> None, Last |-> None, After |-> Text(codecIn[1].after),
                   Before |-> Text(codecIn[1].before), OrderBys |-> <<>>])
        /\ phase' = "paginated"
        /\ UNCHANGED <<store, mode, nodesOnly, hasCounter, maxLimit, limitIfNotSet,
                       orderBysIfNotSet, codecIn, codecOut, extVars>>

CodecNext ==
    \/ WhereExpr
    \/ PaginateGiven
    \/ EncodeKeyset
    \/ DecodeKeyset
    \/ EncodeOffset
    \/ DecodeOffset
    \/ DecodeGiven
    \/ ApplyGiven

CodecSpec == CodecInit /\ [][CodecNext]_vars

DuplicateFree(keys) == \A i, j \in DOMAIN keys : keys[i] = keys[j] => i = j

Projection(node, keys) == [k \in Range(keys) |-> node[k]]

\* C15: the codecs round-trip: decoding the encoding of a non-negative offset
\* gives the offset back; and for a record and a duplicate-free key list whose
\* fields all exist on the record, decoding the encoded keyset cursor succeeds
\* and gives the record projected onto exactly those keys.
C15_CodecRoundTrip ==
    (phase = "decoded" /\ codecIn[1].op # "decode") =>
        /\ codecIn[1].op = "offset" =>
               codecOut[1].decoded = [err |-> "", offset |-> codecIn[1].offset]
        /\ (/\ codecIn[1].op = "keyset"
            /\ DuplicateFree(codecIn[1].keys)
            /\ Range(codecIn[1].keys) \subseteq DOMAIN codecIn[1].node) =>
               /\ codecOut[1].decoded.err = ""
               /\ codecOut[1].decoded.m = Projection(codecIn[1].node, codecIn[1].keys)

\* C16: EncodeKeysetCursor is deterministic and does not depend on the order
\* of the key list: every permutation of the key list gives the same cursor
\* for the record, the cursor's members are in sorted key order, and every
\* record that agrees with the record on the key fields gives the same cursor.
C16_EncodeOrderIndependent ==
    (phase = "encoded" /\ codecIn[1].op = "keyset") =>
        LET node == codecIn[1].node
            keys == codecIn[1].keys
            cursor == codecOut[1].cursor
        IN  /\ \A ks \in KeyLists :
                   (Len(ks) = Len(keys) /\ Range(ks) = Range(keys)) =>
                       EncodeKeysetCursor(node, ks) = cursor
            /\ \A i, j \in DOMAIN cursor :
                   i < j => KeyRank(cursor[i][1]) < KeyRank(cursor[j][1])
            /\ \A other \in NarrowNodes \cup WideNodes :
                   (\A k \in Range(keys) \cap DOMAIN node : other[k] = node[k]) =>
                       EncodeKeysetCursor(other, keys) = cursor

C16_Witness ==
    /\ phase = "encoded"
    /\ codecIn[1].op = "keyset"
    /\ codecIn[1].keys = <<"ID", "Age">>
    /\ codecOut[1].cursor = <<<<"Age", codecIn[1].node.Age>>, <<"ID", codecIn[1].node.ID>>>>

\* C17: EncodeKeysetCursor fails with an error whenever a field named in the
\* key list is absent from the record's serialized form; it never returns a
\* cursor that holds fewer keys than the key list names.
C17_EncodeFailsOnAbsentField ==
    (phase = "encoded" /\ codecIn[1].op = "keyset") =>
        LET node == codecIn[1].node
            keys == codecIn[1].keys
        IN  /\ ~(Range(keys) \subseteq DOMAIN node) => codecOut[1].err # ""
            /\ codecOut[1].err = "" =>
                   Len(codecOut[1].cursor) >= Cardinality(Range(keys))

\* The keys of the members of a cursor string.
CursorKeys(cursor) == {cursor[i][1] : i \in DOMAIN cursor}

\* C18: DecodeKeysetCursor fails when the number of decoded keys differs from
\* the number of key fields or when a key field is missing from the cursor;
\* so whenever it succeeds for a duplicate-free key list the decoded keyset's
\* key set is exactly the set of key fields, and the keyset adapter passes no
\* other keyset to Find (and calls no Find when the decoding failed).
C18_DecodedKeysExact ==
    (phase \in {"decoded", "applied"} /\ codecIn[1].op \in {"keyset", "decode"}) =>
        LET keys == codecIn[1].keys
            cursor == codecOut[1].cursor
            d == codecOut[1].decoded
        IN  /\ Cardinality(CursorKeys(cursor)) # Len(keys) => d.err # ""
            /\ ~(Range(keys) \subseteq CursorKeys(cursor)) => d.err # ""
            /\ (d.err = "" /\ DuplicateFree(keys)) => DOMAIN d.m = Range(keys)
            /\ (phase = "applied" /\ DuplicateFree(keys)) =>
                   LET a == codecOut[1].applied
                   IN  /\ d.err # "" => (a.err = d.err /\ a.calls = <<>>)
                       /\ d.err = "" =>
                              /\ Len(a.calls) = 1
                              /\ a.calls[1].op = "Find"
                              /\ IsSet(a.calls[1].after)
                              /\ DOMAIN a.calls[1].after[1] = Range(keys)

C18_Witness ==
    /\ phase = "applied"
    /\ codecIn[1].keys = <<"ID", "Age">>
    /\ CursorKeys(codecIn[1].cursor) = {"ID", "Age"}
    /\ codecOut[1].applied.err = ""
    /\ DOMAIN codecOut[1].applied.calls[1].after[1] = {"ID", "Age"}

C18_WitnessExtraKey ==
    /\ phase = "applied"
    /\ codecIn[1].keys = <<"ID">>
    /\ CursorKeys(codecIn[1].cursor) = {"ID", "Age"}
    /\ codecOut[1].decoded.err = "cursor length != keys length"
    /\ codecOut[1].applied.calls = <<>>

\* The Find calls of the last Paginate call.
FindCalls == {i \in DOMAIN calls : calls[i].op = "Find"}

Max(a, b) == IF a > b THEN a ELSE b

\* C19: the offset adapter, given limit L, fetches from skip = a+1 when After
\* decodes to a, else from max(0, b-L) when Before decodes to b, else from 0;
\* with Before = b the fetch limit is capped to max(0, b-skip); Find is only
\* called with skip >= 0 and limit > 0, and every fetched position p has
\* skip <= p < b and p > a.
C19_OffsetSkipAndLimit ==
    (phase = "returned" /\ mode = "offset") =>
        \A c \in FindCalls :
            LET L == ApplyCursorsRequest(req).Limit
                hasA == IsSet(req.After)
                hasB == IsSet(req.Before)
                a == AfterPos[1] - 1
                b == BeforePos[1] - 1
                skip == IF hasA THEN a + 1 ELSE IF hasB THEN Max(0, b - L) ELSE 0
                limit == IF hasB THEN Min(L, Max(0, b - skip)) ELSE L
            IN  /\ calls[c].skip = skip
                /\ calls[c].limit = limit
                /\ calls[c].skip >= 0
                /\ calls[c].limit > 0
                /\ \A p \in calls[c].skip..(calls[c].skip + calls[c].limit - 1) :
                       /\ hasB => p < b
                       /\ hasA => p > a

C19_Witness ==
    /\ phase = "returned"
    /\ mode = "offset"
    /\ IsSet(req.After) /\ IsSet(req.Before)
    /\ FindCalls # {}
    /\ \A c \in FindCalls : calls[c].limit < ApplyCursorsRequest(req).Limit

C19_WitnessBeforeOnly ==
    /\ phase = "returned"
    /\ mode = "offset"
    /\ ~IsSet(req.After) /\ IsSet(req.Before)
    /\ \E c \in FindCalls : calls[c].skip >= 1

\* The position in Ordered of a row of the table.
RowPos(row) == CHOOSE p \in 1..Len(store) : Ordered[p] = row

\* C20: in offset mode with a Counter the page-boundary flags are exact for
\* every accepted request: HasPreviousPage iff a record exists before the
\* first returned position, HasNextPage iff a record exists after the last
\* returned position; when a forward request returns no edge, HasPreviousPage
\* iff a record exists before the window start and HasNextPage iff one exists
\* from the window start on; also when After or Before point at or beyond
\* totalCount.
C20_OffsetFlagsExact ==
    (Accepted /\ mode = "offset" /\ hasCounter) =>
        LET N == Len(store)
            start == IF IsSet(req.After) THEN AfterPos[1] + 1 ELSE 1
        IN  /\ PageNodes # <<>> =>
                   /\ PageInfo.HasPreviousPage = (RowPos(PageNodes[1]) > 1)
                   /\ PageInfo.HasNextPage = (RowPos(PageNodes[Len(PageNodes)]) < N)
            /\ (PageNodes = <<>> /\ ~IsSet(req.Last)) =>
                   /\ PageInfo.HasPreviousPage = (N >= 1 /\ start > 1)
                   /\ PageInfo.HasNextPage = (start <= N)

\* The case of C20 that only the adapter decides: a forward request whose
\* After points beyond the last row.
C20_AfterBeyondCount ==
    (/\ Accepted /\ mode = "offset" /\ hasCounter
     /\ IsSet(req.After) /\ ~IsSet(req.Before) /\ ~IsSet(req.Last)
     /\ AfterPos[1] > Len(store) /\ Len(store) >= 1) =>
        PageInfo.HasPreviousPage = TRUE

----------------------------------------------------------------------------
(* C21 - C30 *)

\* The rows the finder returns for the range of the last request; the Counter
\* has no part in it.
FetchedRows ==
    LET areq == ApplyCursorsRequest(req)
        KeysetRows(dec) ==
            KeysetFind(dec.after, dec.before, areq.OrderBys, areq.Limit,
                       areq.FromLast).nodes
        OffsetRows(dec) ==
            OffsetFind(areq.OrderBys,
                       OffsetSkip(dec.after, dec.before, areq.Limit),
                       OffsetLimit(dec.after, dec.before, areq.Limit)).nodes
    IN  IF mode = "keyset"
        THEN KeysetRows(decodeKeysetCursors(areq.After, areq.Before,
                                            KeysOf(areq.OrderBys)))
        ELSE OffsetRows(parseOffsetCursors(areq.After, areq.Before))

\* C21: without a Counter both adapters report TotalCount = 0 and the boundary
\* flags say only whether the cursor was supplied: HasAfterOrPrevious iff After
\* is set (it is HasPreviousPage of a forward request), HasBeforeOrNext iff
\* Before is set (it is HasNextPage of a backward request), whatever the table
\* holds; the returned records are what the finder returns for the range, with
\* a Counter or without.
C21_NoCounterDegrades ==
    Accepted =>
        /\ PageNodes = TrimEdges(FetchedRows, ResolvedLimit(req), IsSet(req.Last))
        /\ ~hasCounter =>
               /\ PageInfo.TotalCount = 0
               /\ ~IsSet(req.Last) => PageInfo.HasPreviousPage = IsSet(req.After)
               /\ IsSet(req.Last) => PageInfo.HasNextPage = IsSet(req.Before)
               /\ IsSet(req.After) => PageInfo.HasPreviousPage
               /\ IsSet(req.Before) => PageInfo.HasNextPage

C21_Witness ==
    /\ Accepted
    /\ ~hasCounter
    /\ mode = "offset"
    /\ IsSet(req.After) /\ ~IsSet(req.Last)
    /\ PageNodes # <<>>
    /\ PageInfo.HasPreviousPage

C21_WitnessKeysetBefore ==
    /\ Accepted
    /\ ~hasCounter
    /\ mode = "keyset"
    /\ IsSet(req.Before) /\ IsSet(req.Last) /\ ~IsSet(req.After)
    /\ PageNodes # <<>>
    /\ PageInfo.HasNextPage

\* An engine whose limits admit pages of several rows: limitIfNotSet and
\* maxLimit are both MaxPage, as the engines of the tests are built with 10, 10.
PageInit ==
    /\ store \in Stores
    /\ mode \in {"keyset", "offset"}
    /\ nodesOnly = FALSE
    /\ hasCounter \in BOOLEAN
    /\ limitIfNotSet = MaxPage
    /\ maxLimit = MaxPage
    /\ orderBysIfNotSet = IDAscAgeDesc
    /\ req = NoRequest
    /\ resp = None
    /\ err = ""
    /\ calls = <<>>
    /\ phase = "constructing"
    /\ codecIn = None
    /\ codecOut = None
    /\ PlainEngine

PageSpec == PageInit /\ [][Next]_vars

C28_WitnessForward ==
    /\ Accepted
    /\ ~IsSet(req.Last)
    /\ Len(PageNodes) >= 2

\* C26: in offset mode a request whose After or Before decodes to a negative
\* offset, or whose After offset is greater than or equal to its Before
\* offset, or whose cursor is malformed, is rejected with an error and no
\* response, and neither Count nor Find is issued.
C26_BadOffsetCursorsRejected ==
    (phase = "paginated" /\ mode = "offset") =>
        LET a == codecIn[1].after
            b == codecIn[1].before
            Malformed(g) == IsSet(g) /\ g[1].kind = "malformed"
            Negative(g) == IsSet(g) /\ g[1].kind # "malformed" /\ g[1].n < 0
        IN  (\/ Malformed(a) \/ Malformed(b)
             \/ Negative(a) \/ Negative(b)
             \/ (IsSet(a) /\ IsSet(b) /\ ~Malformed(a) /\ ~Malformed(b)
                    /\ a[1].n >= b[1].n)) =>
                /\ err # ""
                /\ resp = None
                /\ calls = <<>>

C26_Witness ==
    /\ phase = "paginated"
    /\ mode = "offset"
    /\ hasCounter
    /\ Len(store) >= 1
    /\ IsSet(codecIn[1].after) /\ ~IsSet(codecIn[1].before)
    /\ codecIn[1].after[1].kind = "int"
    /\ codecIn[1].after[1].n < 0
    /\ err = "after < 0"

C26_WitnessMalformed ==
    /\ phase = "paginated"
    /\ hasCounter
    /\ IsSet(codecIn[1].before)
    /\ codecIn[1].before[1].kind = "malformed"
    /\ err = "decode offset cursor"
    /\ calls = <<>>

C26_WitnessOrder ==
    /\ phase = "paginated"
    /\ hasCounter
    /\ IsSet(codecIn[1].after) /\ IsSet(codecIn[1].before)
    /\ codecIn[1].after[1].kind = "signed"
    /\ codecIn[1].after[1].n = codecIn[1].before[1].n
    /\ err = "after >= before"

C26_WitnessAccepted ==
    /\ phase = "paginated"
    /\ hasCounter
    /\ err = ""
    /\ IsSet(codecIn[1].after) /\ IsSet(codecIn[1].before)
    /\ Len(calls) >= 2

RECURSIVE TupleCompare(_, _, _)
\* Lexicographic comparison of row r with keyset k along the order fields
\* cols, each field in its own direction: 0 - 1 when r comes before k, 1 when
\* it comes after, 0 when they agree on every field.
TupleCompare(r, k, cols) ==
    IF cols = <<>> THEN 0
    ELSE LET f == Head(cols).Field
         IN  IF r[f] = k[f] THEN TupleCompare(r, k, Tail(cols))
             ELSE IF (r[f] < k[f]) # Head(cols).Desc THEN 0 - 1
             ELSE 1

\* C27: the predicate of createWhereExpr is strict lexicographic tuple
\* comparison: a row satisfies the after predicate iff it is strictly after
\* the keyset in the composite order, the before predicate (reverse = true)
\* iff it is strictly before; a row equal to the keyset on all order fields
\* satisfies neither, every other row exactly one.
C27_WhereIsTupleComparison ==
    (phase = "evaluated" /\ codecIn[1].op = "where") =>
        LET cmp == TupleCompare(codecIn[1].row, codecIn[1].keyset, codecIn[1].orderBys)
        IN  /\ codecOut[1].after = (cmp = 1)
            /\ codecOut[1].before = (cmp = 0 - 1)
            /\ cmp = 0 => (~codecOut[1].after /\ ~codecOut[1].before)
            /\ cmp # 0 => (codecOut[1].after # codecOut[1].before)

C27_Witness ==
    /\ phase = "evaluated"
    /\ codecIn[1].op = "where"
    /\ Len(codecIn[1].orderBys) = 2
    /\ codecIn[1].orderBys[1].Field = "Age" /\ codecIn[1].orderBys[1].Desc
    /\ codecIn[1].orderBys[2].Field = "ID" /\ ~codecIn[1].orderBys[2].Desc
    /\ codecIn[1].row.Age = codecIn[1].keyset.Age
    /\ codecIn[1].row.ID > codecIn[1].keyset.ID
    /\ codecOut[1].after

C27_WitnessEqual ==
    /\ phase = "evaluated"
    /\ codecIn[1].op = "where"
    /\ codecIn[1].row = codecIn[1].keyset
    /\ ~codecOut[1].after /\ ~codecOut[1].before

----------------------------------------------------------------------------
(* A client that follows the cursors of the responses, page by page *)

Wrappers == {"none", "base64", "aes"}

\* An engine as the tests build it (limits MaxPage, MaxPage), with or without
\* a wrapper, and a client about to ask for pages of n rows.
WalkInit ==
    /\ store \in Stores
    /\ mode \in {"keyset", "offset"}
    /\ nodesOnly = FALSE
    /\ hasCounter \in BOOLEAN
    /\ limitIfNotSet = MaxPage
    /\ maxLimit = MaxPage
    /\ orderBysIfNotSet = IDAscAgeDesc
    /\ req = NoRequest
    /\ resp = None
    /\ err = ""
    /\ calls = <<>>
    /\ phase = "idle"
    /\ codecIn = None
    /\ codecOut = None
    /\ wrap \in Wrappers
    /\ inv = <<>>
    /\ \E n \in 1..MaxPage, obs \in {<<>>, AgeDescIDAsc} :
           walk = Some([n |-> n, orderBys |-> obs, step |-> "start", pages |-> <<>>,
                        calls |-> 0, from |-> None, kind |-> "", side |-> ""])

\* One Paginate call of the client: the response replaces the last one, a
\* forward page is appended to what the client has collected.
WalkCall(r, step, from, kind, side) ==
    LET Returned(out) ==
            /\ req' = r
            /\ resp' = out.resp
            /\ err' = out.err
            /\ calls' = out.calls
            /\ phase' = "returned"
            /\ walk' = Some([n |-> walk[1].n, orderBys |-> walk[1].orderBys,
                             step |-> step,
                             pages |-> IF step = "forward" /\ out.err = ""
                                       THEN walk[1].pages \o out.resp[1].Nodes
                                       ELSE walk[1].pages,
                             calls |-> IF step = "forward" THEN walk[1].calls + 1
                                       ELSE walk[1].calls,
                             from |-> from, kind |-> kind, side |-> side])
            /\ UNCHANGED <<store, mode, nodesOnly, hasCounter, maxLimit, limitIfNotSet,
                           orderBysIfNotSet, codecIn, codecOut, wrap, inv>>
    IN  Returned(Paginate(mode, r))

\* First = n, no cursor.
WalkFirst ==
    /\ phase = "idle"
    /\ IsSet(walk)
    /\ walk[1].step = "start"
    /\ WalkCall([First |-> Some(walk[1].n), Last |-> None, After |-> None,
                 Before |-> None, OrderBys |-> walk[1].orderBys],
                "forward", None, "", "")

\* next page: First = n, After = the EndCursor of the last response.
WalkNext ==
    /\ phase = "returned"
    /\ walk[1].step = "forward"
    /\ Accepted
    /\ PageInfo.HasNextPage
    /\ IsSet(PageInfo.EndCursor)
    /\ WalkCall([First |-> Some(walk[1].n), Last |-> None,
                 After |-> PageInfo.EndCursor, Before |-> None,
                 OrderBys |-> walk[1].orderBys],
                "forward", None, "", "")

\* prev page: Last = n, Before = the StartCursor of the last response.
WalkPrev ==
    /\ phase = "returned"
    /\ walk[1].step \in {"forward", "backward"}
    /\ Accepted
    /\ IsSet(PageInfo.StartCursor)
    /\ WalkCall([First |-> None, Last |-> Some(walk[1].n), After |-> None,
                 Before |-> PageInfo.StartCursor, OrderBys |-> walk[1].orderBys],
                "backward", Some(PageNodes[1]), "", "")

\* The text column of the offset cursor table: what base64 decoding makes of
\* a cursor of the offset adapter.
Base64DecodedOffsetCursor(c) ==
    OffsetCodeTable[CHOOSE i \in DOMAIN OffsetCodeTable : OffsetCodeTable[i][3] = c][2]

\* Strings that the wrapper w did not produce, made from a cursor x that it
\* did produce: the cursor of the inner adapter sent as it is (a JSON object
\* is not base64, an offset cursor is the base64 of its digits), a sealed
\* cursor with a byte changed or sealed under another key, and the base64 of
\* other text: of an empty JSON object or of the same object with its
\* members in another order, of "invalid" for the offset adapter.
Forged(w, m, x) ==
    {[kind |-> "inner cursor",
      cursor |-> IF w = "base64" /\ m = "offset"
                 THEN [enc |-> "base64", key |-> "", intact |-> TRUE,
                       text |-> Base64DecodedOffsetCursor(x.text)]
                 ELSE [enc |-> "plain", key |-> "", intact |-> TRUE, text |-> x.text]]}
    \cup (IF w = "aes"
          THEN {[kind |-> "tampered",
                 cursor |-> [enc |-> "aes", key |-> x.key, intact |-> FALSE,
                             text |-> x.text]],
                [kind |-> "other key",
                 cursor |-> [enc |-> "aes", key |-> OtherKey, intact |-> TRUE,
                             text |-> x.text]]}
          ELSE {[kind |-> "other text",
                 cursor |-> [enc |-> "base64", key |-> "", intact |-> TRUE,
                             text |-> IF m = "keyset" THEN <<>> ELSE "invalid"]]})
    \cup (IF w = "base64" /\ m = "keyset" /\ Reverse(x.text) # x.text
          THEN {[kind |-> "reordered",
                 cursor |-> [enc |-> "base64", key |-> "", intact |-> TRUE,
                             text |-> Reverse(x.text)]]}
          ELSE {})

\* The client sends, as After or as Before, a string that the wrapper did
\* not produce.
WalkForged ==
    /\ phase = "returned"
    /\ walk[1].step = "forward"
    /\ Accepted
    /\ wrap # "none"
    /\ IsSet(PageInfo.EndCursor)
    /\ \E f \in Forged(wrap, mode, PageInfo.EndCursor[1]), side \in {"after", "before"} :
           WalkCall([First |-> Some(walk[1].n), Last |-> None,
                     After |-> IF side = "after" THEN Some(f.cursor) ELSE None,
                     Before |-> IF side = "before" THEN Some(f.cursor) ELSE None,
                     OrderBys |-> walk[1].orderBys],
                    "forged", None, f.kind, side)

WalkStep == WalkFirst \/ WalkNext \/ WalkPrev \/ WalkForged

WalkSpec == WalkInit /\ [][WalkStep]_vars

\* The request of the last call with every cursor replaced by the cursor of
\* the inner adapter that the wrapper made it from.
PlainRequest ==
    [First |-> req.First, Last |-> req.Last,
     After |-> IF IsSet(req.After) THEN Some(req.After[1].text) ELSE None,
     Before |-> IF IsSet(req.Before) THEN Some(req.Before[1].text) ELSE None,
     OrderBys |-> req.OrderBys]

\* What the engine without wrapper returns for a request.
Unwrapped(r) == PaginateVia("none", nodesOnly, mode, r)

C23_WitnessBase64 ==
    /\ IsSet(walk) /\ phase = "returned" /\ walk[1].step = "forged"
    /\ wrap = "base64"
    /\ mode = "keyset"
    /\ walk[1].kind = "inner cursor"
    /\ walk[1].side = "before"
    /\ err = "invalid before cursor"

C23_WitnessInnerReached ==
    /\ IsSet(walk) /\ phase = "returned" /\ walk[1].step = "forged"
    /\ wrap = "base64"
    /\ mode = "offset"
    /\ walk[1].kind = "inner cursor"
    /\ err = "decode offset cursor"
    /\ calls = <<[op |-> "Apply"]>>

C24_WitnessBackward ==
    /\ IsSet(walk) /\ phase = "returned" /\ wrap = "base64"
    /\ walk[1].step = "backward"
    /\ IsSet(req.Before)
    /\ Accepted
    /\ Len(PageNodes) = MaxPage

C30_WitnessBackward ==
    /\ IsSet(walk) /\ phase = "returned"
    /\ walk[1].step = "backward"
    /\ Accepted
    /\ Len(PageNodes) = MaxPage
    /\ RowPos(PageNodes[1]) >= 2


----------------------------------------------------------------------------
(* Paginate step by step: invocations that share one engine and adapter *)

\* The goroutines that call Paginate of the one engine.
Invocations == {"a", "b"}

\* What the collaborators of an invocation do: nothing wrong, the context of
\* the caller is already cancelled, Counter.Count fails, Finder.Find fails.
Faults == {"none", "cancelled", "count", "find"}

\* Faulty variant: the store call reports no error.
StoreErrorSwallowed(fault, op) == ""

\* The error a store call (op is "Count" or "Find") returns: db.WithContext(ctx)
\* fails on a cancelled context, and the finder wraps the error of the store.
StoreError(fault, op) ==
    IF fault = "cancelled"
    THEN (IF op = "Count" THEN "count: context canceled" ELSE "find: context canceled")
    ELSE IF fault = "count" /\ op = "Count" THEN "count: db error"
    ELSE IF fault = "find" /\ op = "Find" THEN "find: db error"
    ELSE ""

\* The locals of an invocation that has not been called yet.
IdleCall ==
    [pc |-> "idle", req |-> NoRequest, fault |-> "none",
     areq |-> [After |-> None, Before |-> None, OrderBys |-> <<>>, Limit |-> 0,
               FromLast |-> FALSE],
     dec |-> [err |-> "", after |-> None, before |-> None],
     totalCount |-> 0, applied |-> NoApplyResponse, steps |-> <<>>, calls |-> <<>>,
     failed |-> "", err |-> "", resp |-> None]

\* Faulty variant: the decoded cursors are kept in one place for all invocations.
DecodedShared(i) == inv["a"].dec

\* after, before: variables of the closure, one pair for each invocation.
DecodedOf(i) == inv[i].dec

\* Faulty variant: a failing step before Find records its error and goes on to Find.
EndCallLate(l, step, e) ==
    [l EXCEPT !.pc = IF step \in {"Find", "assemble"} THEN "done" ELSE "counted",
              !.err = e, !.resp = None, !.steps = Append(@, step)]

\* if err != nil { return nil, err }
EndCall(l, step, e) ==
    [l EXCEPT !.pc = "done", !.err = e, !.resp = None, !.steps = Append(@, step)]

\* The requests of the invocations: one that fails validation, first pages,
\* pages after and before the first and the last row, and cursors that do not
\* decode (in the wrapper, or in the adapter).
StepRequests ==
    LET Sent(c) == IF wrap = "base64" THEN WrapCursor(wrap, c) ELSE c
        Rows == {k \in {1, Len(store)} : k >= 1 /\ k <= LastPosition}
        Bad == IF mode = "keyset" THEN <<>> ELSE "invalid"
        Afters == {None, Some(Sent(Bad))}
                  \cup {Some(Sent(CursorAt(mode, orderBysIfNotSet, k))) : k \in Rows}
                  \cup (IF wrap = "base64"
                        THEN {Some([enc |-> "plain", key |-> "", intact |-> TRUE,
                                    text |-> Bad])}
                        ELSE {})
    IN  {[First |-> Some(0 - 1), Last |-> None, After |-> None, Before |-> None,
          OrderBys |-> <<>>]}
        \cup {[First |-> None, Last |-> None, After |-> a, Before |-> None,
               OrderBys |-> <<>>] : a \in Afters}
        \cup {[First |-> None, Last |-> Some(1), After |-> None,
               Before |-> Some(Sent(CursorAt(mode, orderBysIfNotSet, k))),
               OrderBys |-> <<>>] : k \in Rows}

\* One engine as the tests build it, with or without a wrapper, shared by
\* invocations that have not started.
StepInit ==
    /\ store \in {t \in Stores : Len(t) <= MaxPage}
    /\ mode \in {"keyset", "offset"}
    /\ nodesOnly = FALSE
    /\ hasCounter \in BOOLEAN
    /\ limitIfNotSet = MaxPage
    /\ maxLimit = MaxPage
    /\ orderBysIfNotSet = IDAscAgeDesc
    /\ req = NoRequest
    /\ resp = None
    /\ err = ""
    /\ calls = <<>>
    /\ phase = "idle"
    /\ codecIn = None
    /\ codecOut = None
    /\ wrap \in {"none", "base64", "mock error"}
    /\ walk = <<>>
    /\ inv = [i \in Invocations |-> IdleCall]

\* A step of invocation i writes its own locals and nothing else.
Local(i, l) ==
    /\ inv' = [inv EXCEPT ![i] = l]
    /\ UNCHANGED <<mainVars, phase, codecIn, codecOut, wrap, walk>>

\* A goroutine calls Paginate(ctx, req).
StepStart(i) ==
    /\ inv[i].pc = "idle"
    /\ \E r \in StepRequests, f \in {g \in Faults : g = "count" => hasCounter} :
           Local(i, [inv[i] EXCEPT !.pc = "called", !.req = r, !.fault = f])

\* The engine validates the request and builds the request of the adapter.
StepValidate(i) ==
    LET Checked(l, e) ==
            Local(i, IF e # "" THEN EndCall(l, "validate", e)
                     ELSE [l EXCEPT !.pc = "validated",
                                    !.areq = ApplyCursorsRequest(l.req),
                                    !.steps = Append(@, "validate")])
    IN  /\ inv[i].pc = "called"
        /\ Checked(inv[i], ValidateRequest(inv[i].req))

\* The wrapper decodes the cursors of the request and calls the adapter.
StepUnwrap(i) ==
    LET Opened(l, a, b) ==
            Local(i, IF IsSet(a) /\ ~a[1].ok
                     THEN EndCall(l, "unwrap", "invalid after cursor")
                     ELSE IF IsSet(b) /\ ~b[1].ok
                     THEN EndCall(l, "unwrap", "invalid before cursor")
                     ELSE [l EXCEPT !.pc = "unwrapped",
                                    !.areq = [@ EXCEPT
                                        !.After = IF IsSet(a) THEN Some(a[1].text)
                                                  ELSE None,
                                        !.Before = IF IsSet(b) THEN Some(b[1].text)
                                                   ELSE None],
                                    !.calls = <<[op |-> "Apply"]>>,
                                    !.steps = Append(@, "unwrap")])
        Open(c) == IF ~IsSet(c) THEN None
                   ELSE IF wrap = "mock error" THEN Some([ok |-> TRUE, text |-> c[1]])
                   ELSE Some(UnwrapCursor(wrap, c[1]))
    IN  /\ inv[i].pc = "validated"
        /\ wrap # "none"
        /\ Opened(inv[i], Open(inv[i].areq.After), Open(inv[i].areq.Before))

\* The adapter decodes and validates the cursors.
StepDecode(i) ==
    LET Decoded(l, dec) ==
            Local(i, IF dec.err # "" THEN EndCall(l, "decode", dec.err)
                     ELSE [l EXCEPT !.pc = "decoded", !.dec = dec,
                                    !.steps = Append(@, "decode")])
        Decode(a) ==
            IF mode = "keyset"
            THEN decodeKeysetCursors(a.After, a.Before, KeysOf(a.OrderBys))
            ELSE parseOffsetCursors(a.After, a.Before)
    IN  /\ inv[i].pc = (IF wrap = "none" THEN "validated" ELSE "unwrapped")
        /\ Decoded(inv[i], Decode(inv[i].areq))

\* counter, ok := finder.(Counter); if ok { totalCount, err = counter.Count(ctx) }
StepCount(i) ==
    LET Counted(l, e) ==
            Local(i, IF e # ""
                     THEN [EndCall(l, "Count", e) EXCEPT
                               !.calls = Append(@, [op |-> "Count"]), !.failed = e]
                     ELSE [l EXCEPT !.pc = "counted", !.totalCount = Count,
                                    !.calls = Append(@, [op |-> "Count"]),
                                    !.steps = Append(@, "Count")])
    IN  /\ inv[i].pc = "decoded"
        /\ IF hasCounter THEN Counted(inv[i], StoreError(inv[i].fault, "Count"))
           ELSE Local(i, [inv[i] EXCEPT !.pc = "counted"])

\* The adapter fetches the rows, unless no row can be in the range, and
\* builds its response.
StepFind(i) ==
    LET Respond(l, dec, nodes, skip) ==
            [Edges |-> [k \in 1..Len(nodes) |->
                           [Node |-> nodes[k],
                            Cursor |-> IF mode = "keyset"
                                       THEN EncodeKeysetCursor(nodes[k],
                                                               KeysOf(l.areq.OrderBys))
                                       ELSE OffsetEncode(EdgeOffset(skip, k))]],
             TotalCount |-> l.totalCount,
             HasAfterOrPrevious |-> IF mode = "keyset" THEN IsSet(dec.after)
                                    ELSE OffsetCursorFlag(dec.after, l.totalCount),
             HasBeforeOrNext |-> IF mode = "keyset" THEN IsSet(dec.before)
                                 ELSE OffsetCursorFlag(dec.before, l.totalCount)]
        Fetched(l, dec, call, e, found, skip) ==
            Local(i, IF e # ""
                     THEN [EndCall(l, "Find", e) EXCEPT
                               !.calls = Append(@, call), !.failed = e]
                     ELSE IF found.err # ""
                     THEN [EndCall(l, "Find", found.err) EXCEPT
                               !.calls = Append(@, call), !.failed = found.err]
                     ELSE [l EXCEPT !.pc = "found",
                                    !.applied = Respond(l, dec, found.nodes, skip),
                                    !.calls = Append(@, call),
                                    !.steps = Append(@, "Find")])
        Skipped(l, dec, skip) ==
            Local(i, [l EXCEPT !.pc = "found",
                               !.applied = Respond(l, dec, <<>>, skip)])
        Keyset(l, dec) ==
            IF l.areq.Limit <= 0 \/ (hasCounter /\ l.totalCount <= 0)
            THEN Skipped(l, dec, 0)
            ELSE Fetched(l, dec,
                         [op |-> "Find", after |-> dec.after, before |-> dec.before,
                          limit |-> l.areq.Limit, fromLast |-> l.areq.FromLast],
                         StoreError(l.fault, "Find"),
                         KeysetFind(dec.after, dec.before, l.areq.OrderBys,
                                    l.areq.Limit, l.areq.FromLast),
                         0)
        Offset(l, dec, skip, limit) ==
            IF limit <= 0 \/ (hasCounter /\ skip >= l.totalCount)
            THEN Skipped(l, dec, skip)
            ELSE Fetched(l, dec, [op |-> "Find", skip |-> skip, limit |-> limit],
                         StoreError(l.fault, "Find"),
                         OffsetFind(l.areq.OrderBys, skip, limit), skip)
        Ranged(l, dec) ==
            IF mode = "keyset" THEN Keyset(l, dec)
            ELSE Offset(l, dec, OffsetSkip(dec.after, dec.before, l.areq.Limit),
                        OffsetLimit(dec.after, dec.before, l.areq.Limit))
    IN  /\ inv[i].pc = "counted"
        /\ Ranged(inv[i], DecodedOf(i))

\* The engine trims the edges to the page, evaluates their cursor functions
\* (those of a wrapper encode, that of "mock error" fails) and returns.
StepAssemble(i) ==
    LET Page(l, applied, edges, limit, fromLast) ==
            Local(i, IF wrap = "mock error" /\ Len(edges) > 0
                     THEN [EndCall(l, "assemble", "mock error") EXCEPT
                               !.failed = "mock error"]
                     ELSE [l EXCEPT !.pc = "done",
                                    !.resp = Some(
                                        [Edges |-> IF nodesOnly THEN <<>> ELSE edges,
                                         Nodes |-> [k \in 1..Len(edges) |-> edges[k].Node],
                                         PageInfo |-> PageInfoOf(applied, edges, limit,
                                                                 fromLast)]),
                                    !.steps = Append(@, "assemble")])
        Trimmed(l, applied, limit, fromLast) ==
            Page(l, applied, TrimEdges(applied.Edges, limit, fromLast), limit, fromLast)
        Encoded(l, applied) ==
            Trimmed(l,
                    IF wrap = "base64"
                    THEN [applied EXCEPT !.Edges =
                             [k \in DOMAIN applied.Edges |->
                                 [Node |-> applied.Edges[k].Node,
                                  Cursor |-> WrapCursor(wrap, applied.Edges[k].Cursor)]]]
                    ELSE applied,
                    ResolvedLimit(l.req), IsSet(l.req.Last))
    IN  /\ inv[i].pc = "found"
        /\ Encoded(inv[i], inv[i].applied)

StepNext ==
    \E i \in Invocations :
        \/ StepStart(i)
        \/ StepValidate(i)
        \/ StepUnwrap(i)
        \/ StepDecode(i)
        \/ StepCount(i)
        \/ StepFind(i)
        \/ StepAssemble(i)

StepSpec == StepInit /\ [][StepNext]_vars


----------------------------------------------------------------------------
(* C29: the steps of one call *)

\* The steps of a call in the order of the code.
StepOrder == <<"validate", "unwrap", "decode", "Count", "Find", "assemble">>

StepRank(step) == CHOOSE k \in DOMAIN StepOrder : StepOrder[k] = step

\* The store calls among the calls an invocation has issued, by name.
StoreOps(cs) ==
    LET RECURSIVE Ops(_)
        Ops(k) == IF k > Len(cs) THEN <<>>
                  ELSE IF cs[k].op \in {"Count", "Find"} THEN <<cs[k].op>> \o Ops(k + 1)
                  ELSE Ops(k + 1)
    IN  Ops(1)

\* The steps of an invocation that were store calls.
StoreSteps(steps) ==
    LET RECURSIVE Ops(_)
        Ops(k) == IF k > Len(steps) THEN <<>>
                  ELSE IF steps[k] \in {"Count", "Find"} THEN <<steps[k]>> \o Ops(k + 1)
                  ELSE Ops(k + 1)
    IN  Ops(1)

\* C29: within one Paginate call the steps happen in the order validation,
\* cursor decoding, Count (with a Counter), Find, each at most once; a failing
\* step ends the call: a request that fails validation or decoding issues no
\* store call, a failing Count is not followed by Find, and no store call is
\* issued twice.
C29_StepsInOrder ==
    \A i \in Invocations :
        LET InOrder(l, ops) ==
                /\ \A j, k \in DOMAIN l.steps :
                       j < k => StepRank(l.steps[j]) < StepRank(l.steps[k])
                /\ l.err # "" => l.pc = "done" /\ l.resp = None
                /\ ops = StoreSteps(l.steps)
                /\ ops \in {<<>>, <<"Count">>, <<"Find">>, <<"Count", "Find">>}
                /\ ops # <<>> => "decode" \in Range(l.steps)
                /\ "decode" \in Range(l.steps) => l.steps[1] = "validate"
                /\ (hasCounter /\ ops # <<>>) => ops[1] = "Count"
                /\ (~hasCounter) => "Count" \notin Range(ops)
                /\ (l.pc \notin {"idle", "called"} /\ ValidateRequest(l.req) # "")
                       => l.pc = "done" /\ l.steps = <<"validate">> /\ l.calls = <<>>
                /\ (l.err # "" /\ l.steps[Len(l.steps)] \in {"unwrap", "decode"})
                       => ops = <<>>
                /\ (l.err # "" /\ l.steps[Len(l.steps)] = "Count")
                       => ops = <<"Count">>
        IN  InOrder(inv[i], StoreOps(inv[i].calls))

\* A call whose Count failed: it ended there, Find was never called.
C29_Witness ==
    \E i \in Invocations :
        /\ inv[i].pc = "done"
        /\ inv[i].fault = "count"
        /\ inv[i].err = "count: db error"
        /\ inv[i].steps = <<"validate", "decode", "Count">>
        /\ StoreOps(inv[i].calls) = <<"Count">>

\* A call that went through every step, once each.
C29_WitnessAllSteps ==
    \E i \in Invocations :
        /\ inv[i].pc = "done"
        /\ inv[i].err = ""
        /\ inv[i].steps = StepOrder
        /\ Len(inv[i].resp[1].Nodes) > 0

\* A call whose cursor did not decode: no store call was issued.
C29_WitnessDecodeFails ==
    \E i \in Invocations :
        /\ inv[i].pc = "done"
        /\ inv[i].steps = <<"validate", "decode">>
        /\ inv[i].err # ""
        /\ inv[i].calls = <<>>
        /\ hasCounter


----------------------------------------------------------------------------
(* C22: errors of the collaborators *)

\* The page the engine keeps out of the response of the adapter.
KeptEdges(l) == TrimEdges(l.applied.Edges, ResolvedLimit(l.req), IsSet(l.req.Last))

\* C22: an error returned by Counter.Count, by Finder.Find (that of a context
\* cancelled before the call included), by the adapter under a wrapper or by
\* the cursor function of an edge is what Paginate returns, with a nil
\* response; the failing call is the last call, none is issued again.
C22_ErrorsSurface ==
    \A i \in Invocations :
        LET Surfaced(l, e) == l.pc = "done" /\ l.err = e /\ l.resp = None
            Holds(l, ops) ==
                /\ l.failed # "" => Surfaced(l, l.failed)
                /\ (l.fault = "cancelled" /\ ops # <<>>)
                       => /\ Len(ops) = 1
                          /\ Surfaced(l, IF ops[1] = "Count"
                                         THEN "count: context canceled"
                                         ELSE "find: context canceled")
                /\ (l.fault = "count" /\ "Count" \in Range(ops))
                       => ops = <<"Count">> /\ Surfaced(l, "count: db error")
                /\ (l.fault = "find" /\ "Find" \in Range(ops))
                       => /\ ops[Len(ops)] = "Find"
                          /\ Len(SelectSeq(ops, LAMBDA o : o = "Find")) = 1
                          /\ Surfaced(l, "find: db error")
                /\ (wrap = "mock error" /\ l.pc = "done" /\ Len(KeptEdges(l)) > 0)
                       => Surfaced(l, "mock error")
                /\ (wrap # "none" /\ l.pc = "done"
                        /\ l.steps = <<"validate", "unwrap", "decode">>)
                       => Surfaced(l, IF mode = "keyset"
                                      THEN decodeKeysetCursors(
                                               l.areq.After, l.areq.Before,
                                               KeysOf(l.areq.OrderBys)).err
                                      ELSE parseOffsetCursors(l.areq.After,
                                                              l.areq.Before).err)
        IN  Holds(inv[i], StoreOps(inv[i].calls))

\* A call with a context that was cancelled before: Find fails, the call
\* returns its error and no response.
C22_Witness ==
    \E i \in Invocations :
        /\ inv[i].pc = "done"
        /\ inv[i].fault = "cancelled"
        /\ inv[i].err = "find: context canceled"
        /\ inv[i].resp = None
        /\ StoreOps(inv[i].calls) = <<"Find">>

\* The cursor function of an edge of the page fails.
C22_WitnessCursorFunction ==
    \E i \in Invocations :
        /\ wrap = "mock error"
        /\ inv[i].pc = "done"
        /\ inv[i].fault = "none"
        /\ StoreOps(inv[i].calls) = <<"Count", "Find">>
        /\ inv[i].err = "mock error"
        /\ inv[i].resp = None

\* The adapter under a wrapper fails: the wrapper hands its error on.
C22_WitnessInnerStage ==
    \E i \in Invocations :
        /\ wrap = "base64"
        /\ inv[i].pc = "done"
        /\ inv[i].steps = <<"validate", "unwrap", "decode">>
        /\ inv[i].err \in {"decode offset cursor", "cursor length != keys length"}
        /\ inv[i].resp = None

\* Count succeeds, then Find fails.
C22_WitnessFindAfterCount ==
    \E i \in Invocations :
        /\ inv[i].pc = "done"
        /\ inv[i].fault = "find"
        /\ StoreOps(inv[i].calls) = <<"Count", "Find">>
        /\ inv[i].err = "find: db error"
        /\ inv[i].resp = None

\* A call with a cancelled context that reaches no store call: the offset
\* adapter without a Counter fetches nothing before offset 0, so no
\* collaborator sees the context and no error is raised.
C22_WitnessCancelledNoStoreCall ==
    \E i \in Invocations :
        /\ inv[i].pc = "done"
        /\ inv[i].fault = "cancelled"
        /\ ValidateRequest(inv[i].req) = ""
        /\ inv[i].calls = <<>>
        /\ inv[i].err = ""
        /\ inv[i].resp # None


----------------------------------------------------------------------------
(* C25: concurrent calls *)

\* What Paginate returns for request r when it runs alone, its collaborators
\* behaving as f says: the call as a whole, cut at its first failing store call.
RunAlone(r, f) ==
    LET Fails(cs, k) == /\ cs[k].op \in {"Count", "Find"}
                        /\ StoreError(f, cs[k].op) # ""
        Cut(out, k) == [err |-> StoreError(f, out.calls[k].op), resp |-> None,
                        calls |-> SubSeq(out.calls, 1, k)]
        Alone(out) ==
            IF \E k \in DOMAIN out.calls : Fails(out.calls, k)
            THEN Cut(out, CHOOSE k \in DOMAIN out.calls :
                              /\ Fails(out.calls, k)
                              /\ \A j \in 1..(k - 1) : ~Fails(out.calls, j))
            ELSE out
    IN  Alone(Paginate(mode, r))

\* C25: whatever the interleaving of the steps of the invocations that share
\* the engine and the adapter, over a table that does not change, each
\* invocation returns the error, the response and issues the calls it would
\* when run alone.
C25_ConcurrentCallsIndependent ==
    \A i \in Invocations :
        LET Same(l, alone) ==
                /\ l.err = alone.err
                /\ l.resp = alone.resp
                /\ l.calls = alone.calls
        IN  inv[i].pc = "done" => Same(inv[i], RunAlone(inv[i].req, inv[i].fault))

\* Two finished invocations with different requests: each has its own page.
C25_Witness ==
    /\ inv["a"].pc = "done"
    /\ inv["b"].pc = "done"
    /\ inv["a"].req # inv["b"].req
    /\ inv["a"].err = ""
    /\ inv["b"].err = ""
    /\ Len(inv["a"].resp[1].Nodes) > 0
    /\ Len(inv["b"].resp[1].Nodes) > 0
    /\ inv["a"].resp[1].Nodes # inv["b"].resp[1].Nodes

\* Both invocations are between decoding and fetching at the same time, with
\* different decoded cursors.
C25_WitnessInFlight ==
    /\ inv["a"].pc = "counted"
    /\ inv["b"].pc = "decoded"
    /\ IsSet(inv["a"].dec.after)
    /\ IsSet(inv["b"].dec.before)

\* One invocation fails while the other returns a page.
C25_WitnessOneFails ==
    /\ inv["a"].pc = "done"
    /\ inv["b"].pc = "done"
    /\ inv["a"].fault = "cancelled"
    /\ inv["a"].err # ""
    /\ inv["b"].err = ""
    /\ Len(inv["b"].resp[1].Nodes) > 0

====
